---- MODULE Spec2Model ----
\* Antigravity Monitor (VS Code extension): the telemetry classification and
\* aggregation engine of src/src/extension.ts, as a state machine.
\*
\* The persisted store is the three globalState tables (model counts,
\* token/query stats, project stats).  The operations are activation (legacy
\* migration, one-time seeding, project compaction), the text-document change
\* handler, the branch resolver with its cache, and the dashboard panel
\* life cycle.  classifyQuery is modelled on characters, with the regular
\* expressions of the source evaluated by a small matcher.
EXTENDS Integers, Sequences, FiniteSets, TLC

VARIABLES
    activated,          \* activate() has run in the current extension host
    usage,              \* globalState[USAGE_STORAGE_KEY], in key order
    tq,                 \* globalState[TOKEN_QUERY_STORAGE_KEY]
    proj,               \* globalState[PROJECT_STORAGE_KEY]
    cachedBranch,       \* module variable cachedBranch
    branchLastChecked,  \* module variable branchLastChecked
    now,                \* Date.now(), in ms
    today,              \* new Date().toISOString().split('T')[0]
    panels,             \* webview panels that are open
    panelsCreated,      \* panels created by this extension host
    activePanel,        \* module variable activePanel (0 = undefined)
    last,               \* history: the operation that ran last, with its inputs
    pre,                \* history: the three tables before that operation
    sent,               \* history: messages posted by the operation that ran last
    edits,              \* history: qualifying changes recorded so far, per date
    seeded,             \* history: dates whose token/query record seeding wrote
    cqText,             \* input of the classifier under SpecClassify
    cqResult,           \* its result
    currentData,        \* dashboard/app/data/sample.json, as an array of records
    currentUserData,    \* history: the record the last export and upload merged
    preData,            \* history: the array before that merge
    files,              \* the files of the dashboard's data directory, in reading order
    uniqueUsers,        \* getData: whether it has returned, and what
    users,              \* the Dashboard component's state users
    call,               \* history: the last getCurrentBranch call under SpecBranch
    persisted,          \* the Memento's storage: the tables as last written to it
    storedUserId,       \* globalState['antigravity.userId'] ("" = undefined)
    userEmail,          \* module variable userEmail
    exported            \* history: the document the last export command built, and when

vars == <<activated, usage, tq, proj, cachedBranch, branchLastChecked,
          now, today, panels, panelsCreated, activePanel,
          last, pre, sent, edits, seeded, cqText, cqResult,
          currentData, currentUserData, preData, files, uniqueUsers, users, call,
          persisted, storedUserId, userEmail, exported>>

\* the variables of the export merge and of the dashboard loader
exportVars == <<currentData, currentUserData, preData>>

loadVars == <<files, uniqueUsers, users>>

\* the installation's identity and the last exported document
identityVars == <<storedUserId, userEmail, exported>>

-----------------------------------------------------------------------------
\* Bounds of the model.

MaxEdits == 2       \* qualifying changes recorded in one behaviour
MaxChanges == 1     \* content changes carried by one change event
MaxPanels == 1      \* panels created by one extension host
MaxTicks == 1       \* clock ticks in one behaviour
MaxPieces == 3      \* vocabulary pieces in a classifier input

-----------------------------------------------------------------------------
\* Text: a string is a sequence of one-character strings.

Upper == <<"A","B","C","D","E","F","G","H","I","J","K","L","M",
           "N","O","P","Q","R","S","T","U","V","W","X","Y","Z">>

Lower == <<"a","b","c","d","e","f","g","h","i","j","k","l","m",
           "n","o","p","q","r","s","t","u","v","w","x","y","z">>

Digits == {"0","1","2","3","4","5","6","7","8","9"}

\* \w of a JavaScript regular expression
WordChars == {Upper[i] : i \in 1..26} \cup {Lower[i] : i \in 1..26}
             \cup Digits \cup {"_"}

\* \s of a JavaScript regular expression (the ones the model's texts use)
Whitespace == {" ", "\t", "\n"}

LowerOf(c) ==
    IF \E i \in 1..26 : Upper[i] = c
    THEN Lower[CHOOSE i \in 1..26 : Upper[i] = c]
    ELSE c

toLowerCase(text) == [i \in 1..Len(text) |-> LowerOf(text[i])]

\* The character after offset p is a word character (offsets run 0..Len).
WordAfter(text, p) == p >= 0 /\ p < Len(text) /\ text[p + 1] \in WordChars

\* \b at offset p: exactly one side is a word character.
WordBoundary(text, p) == WordAfter(text, p - 1) # WordAfter(text, p)

\* The offsets at which pattern pat, from its k-th element on, can end when it
\* starts at offset p.  An element is a literal character, "WS*" (\s*) or
\* "WS+" (\s+).
RECURSIVE MatchEnds(_, _, _, _)
MatchEnds(pat, k, text, p) ==
    IF k > Len(pat) THEN {p}
    ELSE IF pat[k] = "WS*" THEN
        MatchEnds(pat, k + 1, text, p)
        \cup (IF p < Len(text) /\ text[p + 1] \in Whitespace
              THEN MatchEnds(pat, k, text, p + 1) ELSE {})
    ELSE IF pat[k] = "WS+" THEN
        IF p < Len(text) /\ text[p + 1] \in Whitespace
        THEN MatchEnds(pat, k + 1, text, p + 1) \cup MatchEnds(pat, k, text, p + 1)
        ELSE {}
    ELSE IF p < Len(text) /\ text[p + 1] = pat[k]
         THEN MatchEnds(pat, k + 1, text, p + 1)
         ELSE {}

\* /\b(a1|a2|...)\b/.test(text)
TestWords(alts, text) ==
    \E p \in 0..Len(text) :
        /\ WordBoundary(text, p)
        /\ \E a \in alts : \E e \in MatchEnds(a, 1, text, p) : WordBoundary(text, e)

DebuggingWords ==
    { <<"e","r","r","o","r">>,
      <<"e","x","c","e","p","t","i","o","n">>,
      <<"b","u","g">>,
      <<"f","i","x">>,
      <<"d","e","b","u","g">>,
      <<"t","r","a","c","e","b","a","c","k">>,
      <<"s","t","a","c","k","WS*","t","r","a","c","e">>,
      <<"u","n","d","e","f","i","n","e","d">>,
      <<"n","u","l","l">>,
      <<"c","r","a","s","h">>,
      <<"f","a","i","l","e","d">>,
      <<"i","s","s","u","e">> }

SearchWords ==
    { <<"s","e","a","r","c","h">>,
      <<"f","i","n","d">>,
      <<"l","o","o","k","u","p">>,
      <<"w","h","e","r","e">>,
      <<"g","r","e","p">>,
      <<"l","o","c","a","t","e">>,
      <<"q","u","e","r","y">>,
      <<"s","e","l","e","c","t","WS+","f","r","o","m">> }

DocumentationWords ==
    { <<"d","o","c","s","t","r","i","n","g">>,
      <<"j","s","d","o","c">>,
      <<"r","e","a","d","m","e">>,
      <<"c","o","m","m","e","n","t">>,
      <<"d","o","c","u","m","e","n","t","a","t","i","o","n">>,
      <<"@","p","a","r","a","m">>,
      <<"@","r","e","t","u","r","n">>,
      <<"@","d","e","s","c","r","i","p","t","i","o","n">>,
      <<"/","*","*">> }

PlanningWords ==
    { <<"p","l","a","n">>,
      <<"t","o","d","o">>,
      <<"d","e","s","i","g","n">>,
      <<"a","r","c","h","i","t","e","c","t","u","r","e">>,
      <<"r","e","f","a","c","t","o","r">>,
      <<"r","e","s","t","r","u","c","t","u","r","e">>,
      <<"m","i","g","r","a","t","e">>,
      <<"r","o","a","d","m","a","p">>,
      <<"i","m","p","l","e","m","e","n","t","WS+","f","e","a","t","u","r","e">> }

CodingWords ==
    { <<"f","u","n","c","t","i","o","n">>,
      <<"c","l","a","s","s">>,
      <<"c","o","n","s","t">>,
      <<"l","e","t">>,
      <<"v","a","r">>,
      <<"i","m","p","o","r","t">>,
      <<"e","x","p","o","r","t">>,
      <<"r","e","t","u","r","n">>,
      <<"i","f">>,
      <<"f","o","r">>,
      <<"w","h","i","l","e">>,
      <<"d","e","f"," ">>,
      <<"a","s","y","n","c">>,
      <<"a","w","a","i","t">>,
      <<"=",">">> }

\* /[{};()\[\]]/
CodingPunctuation == {"{", "}", ";", "(", ")", "[", "]"}

TestPunctuation(text) == \E i \in 1..Len(text) : text[i] \in CodingPunctuation

QUERY_TYPES ==
    <<"Coding", "Debugging", "Planning", "Search", "Documentation", "General Question">>

\* the cascade with the Coding rule tested before the keyword rules
classifyQuery_CodingFirst(text) ==
    LET lower == toLowerCase(text) IN
    IF TestWords(CodingWords, lower) \/ TestPunctuation(text) THEN "Coding"
    ELSE IF TestWords(DebuggingWords, lower) THEN "Debugging"
    ELSE IF TestWords(SearchWords, lower) THEN "Search"
    ELSE IF TestWords(DocumentationWords, lower) THEN "Documentation"
    ELSE IF TestWords(PlanningWords, lower) THEN "Planning"
    ELSE "General Question"

classifyQuery(text) ==
    LET lower == toLowerCase(text) IN
    IF TestWords(DebuggingWords, lower) THEN "Debugging"
    ELSE IF TestWords(SearchWords, lower) THEN "Search"
    ELSE IF TestWords(DocumentationWords, lower) THEN "Documentation"
    ELSE IF TestWords(PlanningWords, lower) THEN "Planning"
    ELSE IF TestWords(CodingWords, lower) \/ TestPunctuation(text) THEN "Coding"
    ELSE "General Question"

-----------------------------------------------------------------------------
\* Numbers.  Math.ceil over a double product or quotient: on the model's range
\* (and up to 2 000 000) the double arithmetic of x * 0.2, x * 0.8, x / 4 and
\* x / 100 gives the ceiling of the exact rational, so integers model it.

CeilDiv(a, b) == (a + b - 1) \div b

\* change.text.length > 30
AI_TEXT_THRESHOLD == 30

\* now - branchLastChecked < 10000
BRANCH_STALE_MS == 10000

\* Math.ceil(dayTotal / 100), Math.ceil((inputTokens + outputTokens) / 100)
SEED_QUERY_DIVISOR == 100

\* Math.ceil(newChars / 4)
estimatedOutputTokens(newChars) == CeilDiv(newChars, 4)

\* the input estimate rounded down instead of up
estimatedInputTokens_Floor(out) == (out * 2) \div 10

\* Math.ceil(estimatedOutputTokens * 0.2)
estimatedInputTokens(out) == CeilDiv(out * 2, 10)

\* the threshold test taken as "at least 30"
CountsAsGenerated_Inclusive(newChars) == newChars >= AI_TEXT_THRESHOLD

\* if (change.text.length > 30)
CountsAsGenerated(newChars) == newChars > AI_TEXT_THRESHOLD

\* a value that is not a number (NaN)
NaN == 0 - 1

-----------------------------------------------------------------------------
\* Objects used as maps: functions on the set of their keys.

EmptyMap == [x \in {} |-> 0]

Put(f, k, v) == [x \in (DOMAIN f) \cup {k} |-> IF x = k THEN v ELSE f[x]]

\* f[k] || 0
GetOr0(f, k) == IF k \in DOMAIN f THEN f[k] ELSE 0

RECURSIVE SumOver(_, _)
SumOver(f, keys) ==
    IF keys = {} THEN 0
    ELSE LET k == CHOOSE x \in keys : TRUE
         IN  f[k] + SumOver(f, keys \ {k})

\* Object.values(f).reduce((a, b) => a + b, 0)
SumValues(f) == SumOver(f, DOMAIN f)

DEFAULT_MODEL == "Gemini 1.5 Pro"

MODELS == <<"Gemini 1.5 Pro", "Gemini 3 Flash", "Claude Sonnet 4.5", "GPT-OSS 120B (Medium)">>

\* The model-counts table keeps the order of its keys (Object.keys), which the
\* legacy check reads.  An entry is a date and its value, whose shape is
\*   "number"  the old schema: the integer n
\*   "object"  the per-model mapping m
\*   "nested"  { 'Gemini 1.5 Pro': m }, a mapping inside a mapping
\*   "corrupt" a mapping whose default-model cell is not a number
NumberEntry(d, n) == [k |-> d, shape |-> "number", n |-> n, m |-> EmptyMap]

ObjectEntry(d, m) == [k |-> d, shape |-> "object", n |-> 0, m |-> m]

UsageKeys(u) == {u[i].k : i \in 1..Len(u)}

UsageIndex(u, d) == IF d \in UsageKeys(u) THEN CHOOSE i \in 1..Len(u) : u[i].k = d ELSE 0

\* Object.values(models).reduce((a, b) => a + b, 0) of one date's value
DayTotal(e) ==
    IF e.shape = "object" THEN SumValues(e.m)
    ELSE IF e.shape = "number" THEN 0
    ELSE NaN

\* { inputTokens: 0, outputTokens: 0, queries: {} }
EmptyRecord == [inputTokens |-> 0, outputTokens |-> 0, queries |-> EmptyMap]

-----------------------------------------------------------------------------
\* The texts of the modelled content changes, by name.

Pad(s, n) == s \o [i \in 1..(n - Len(s)) |-> IF i = 1 THEN " " ELSE "z"]

EditText ==
    [ short30 |-> Pad(<<"f","i","x"," ","t","h","e"," ","b","u","g">>, 30),
      bug120  |-> Pad(<<"f","i","x"," ","t","h","e"," ","b","u","g">>, 120),
      code31  |-> Pad(<<"i","f","(","x",")","{","y",";","}">>, 31) ]

TextIds == DOMAIN EditText

EditLength == [id \in TextIds |-> Len(EditText[id])]

EditQueryType == [id \in TextIds |-> classifyQuery(EditText[id])]

Dates == <<"2024-01-01", "2024-01-02">>

PastDate == "2023-12-31"

\* what the Git extension API reports as HEAD name ("" = none, or it threw)
ApiResults == {"", "main"}

\* what the subprocess does: no workspace folder, an error, or a branch name
ExecResults == {"nofolder", "fail", "main"}

\* the same with the two ways of failing told apart: the Git API has no branch
\* name or throws; the subprocess exits with an error or runs into its timeout
LiveApiResults == {"", "throws", "main"}

LiveExecResults == {"nofolder", "fail", "timeout", "main"}

\* The environment of one operation: what the Git API reports, what the
\* subprocess does when it is run, whether postMessage throws, and the storage
\* keys whose write the Memento rejects (none but under SpecPersist).  Only the
\* combinations that differ for the program are kept: the subprocess is not
\* looked at when the Git API has a branch name, nor postMessage without a panel.
Envs(panelOpen) ==
    {e \in [api : ApiResults, exec : ExecResults, post : {"ok", "throws"},
             write : {{}}] :
        /\ (e.api # "" => e.exec = "nofolder")
        /\ (~panelOpen => e.post = "ok")}

LiveEnvs(panelOpen) ==
    {e \in [api : LiveApiResults, exec : LiveExecResults, post : {"ok", "throws"},
             write : {{}}] :
        /\ (e.api = "main" => e.exec = "nofolder")
        /\ (~panelOpen => e.post = "ok")}

-----------------------------------------------------------------------------
\* getCurrentBranch: the value returned, the cache after the call, whether
\* the subprocess ran, and whether the call ended in an exception.

\* strategy 1 yields a branch name
ApiHasBranch(env) == env.api # "" /\ env.api # "throws"

\* execSync throws: the command exits with an error, or the timeout kills it
ExecThrows(env) == env.exec \in {"fail", "timeout"}

\* the resolver with no try/catch around either strategy
getCurrentBranch_NoCatch(cb, checked, t, env) ==
    IF env.api = "throws" THEN
        [ret |-> "", cachedBranch |-> cb, branchLastChecked |-> checked,
         exec |-> 0, raised |-> TRUE]
    ELSE IF ApiHasBranch(env) THEN
        [ret |-> env.api, cachedBranch |-> env.api, branchLastChecked |-> checked,
         exec |-> 0, raised |-> FALSE]
    ELSE IF t - checked < BRANCH_STALE_MS /\ cb # "unknown" /\ cb # "no-git-repo" THEN
        [ret |-> cb, cachedBranch |-> cb, branchLastChecked |-> checked,
         exec |-> 0, raised |-> FALSE]
    ELSE IF ExecThrows(env) THEN
        [ret |-> "", cachedBranch |-> cb, branchLastChecked |-> checked,
         exec |-> 1, raised |-> TRUE]
    ELSE
        LET cb2 == IF env.exec = "nofolder" THEN cb ELSE env.exec
        IN  [ret |-> cb2, cachedBranch |-> cb2, branchLastChecked |-> t,
             exec |-> IF env.exec = "nofolder" THEN 0 ELSE 1, raised |-> FALSE]

\* the resolver that keeps a failure of the subprocess for the staleness window
getCurrentBranch_CachesFailure(cb, checked, t, env) ==
    IF ApiHasBranch(env) THEN
        [ret |-> env.api, cachedBranch |-> env.api, branchLastChecked |-> checked,
         exec |-> 0, raised |-> FALSE]
    ELSE IF t - checked < BRANCH_STALE_MS /\ cb # "unknown" THEN
        [ret |-> cb, cachedBranch |-> cb, branchLastChecked |-> checked,
         exec |-> 0, raised |-> FALSE]
    ELSE
        LET cb2 == IF env.exec = "nofolder" THEN cb
                   ELSE IF ExecThrows(env) THEN "no-git-repo"
                   ELSE env.exec
        IN  [ret |-> cb2, cachedBranch |-> cb2, branchLastChecked |-> t,
             exec |-> IF env.exec = "nofolder" THEN 0 ELSE 1, raised |-> FALSE]

\* the resolver that runs the subprocess whenever the Git API has no branch
getCurrentBranch_NoCache(cb, checked, t, env) ==
    IF ApiHasBranch(env) THEN
        [ret |-> env.api, cachedBranch |-> env.api, branchLastChecked |-> checked,
         exec |-> 0, raised |-> FALSE]
    ELSE
        LET cb2 == IF env.exec = "nofolder" THEN cb
                   ELSE IF ExecThrows(env) THEN "no-git-repo"
                   ELSE env.exec
        IN  [ret |-> cb2, cachedBranch |-> cb2, branchLastChecked |-> t,
             exec |-> IF env.exec = "nofolder" THEN 0 ELSE 1, raised |-> FALSE]

\* Both strategies run inside try/catch: an exception of the Git API leaves
\* strategy 1 without a branch name, an exception of execSync sets the cache to
\* 'no-git-repo'; nothing else in the function can throw.
getCurrentBranch(cb, checked, t, env) ==
    IF ApiHasBranch(env) THEN
        [ret |-> env.api, cachedBranch |-> env.api, branchLastChecked |-> checked,
         exec |-> 0, raised |-> FALSE]
    ELSE IF t - checked < BRANCH_STALE_MS /\ cb # "unknown" /\ cb # "no-git-repo" THEN
        [ret |-> cb, cachedBranch |-> cb, branchLastChecked |-> checked,
         exec |-> 0, raised |-> FALSE]
    ELSE
        LET cb2 == IF env.exec = "nofolder" THEN cb
                   ELSE IF ExecThrows(env) THEN "no-git-repo"
                   ELSE env.exec
        IN  [ret |-> cb2, cachedBranch |-> cb2, branchLastChecked |-> t,
             exec |-> IF env.exec = "nofolder" THEN 0 ELSE 1, raised |-> FALSE]

-----------------------------------------------------------------------------
\* The change handler, one content change at a time.

\* The counters aiUsageCount and aiGeneratedChars and the status bar text are
\* written here too; they are only displayed, nothing reads them back, and they
\* are not part of the state.

\* the keys of the three tables in the Memento
StorageKeys == {"usage", "tq", "proj"}

\* the storage holding what the tables hold, no write rejected
Stored(tables) == [disk |-> tables, rejected |-> {}, reported |-> {}]

\* context.globalState.update(key, value); as a statement.  The Memento holds
\* the value in memory at once and returns a Thenable that is rejected when
\* the write to storage fails; the statement drops the Thenable, so a
\* rejection is recorded in rejected and never in reported.
Update(p, key, value, env) ==
    IF key \in env.write
    THEN [p EXCEPT !.rejected = @ \cup {key}]
    ELSE [p EXCEPT !.disk[key] = value]

\* the default-model cell overwritten instead of accumulated
UsageAdd_Overwrite(u, d, tokens) ==
    LET i == UsageIndex(u, d) IN
    IF i = 0
    THEN [threw |-> FALSE,
          usage |-> Append(u, ObjectEntry(d, Put(EmptyMap, DEFAULT_MODEL, tokens)))]
    ELSE [threw |-> FALSE,
          usage |-> [u EXCEPT ![i] = ObjectEntry(d, Put(u[i].m, DEFAULT_MODEL, tokens))]]

\* 1. Model usage: currentStats[dateKey][defaultModel] += estimatedTokens.
\* The compiled module is strict, so setting a property of a number throws.
UsageAdd(u, d, tokens) ==
    LET i == UsageIndex(u, d) IN
    IF i = 0 THEN
        [threw |-> FALSE,
         usage |-> Append(u, ObjectEntry(d, Put(EmptyMap, DEFAULT_MODEL, tokens)))]
    ELSE IF u[i].shape = "number" THEN
        IF u[i].n = 0
        THEN [threw |-> FALSE,
              usage |-> [u EXCEPT ![i] = ObjectEntry(d, Put(EmptyMap, DEFAULT_MODEL, tokens))]]
        ELSE [threw |-> TRUE, usage |-> u]
    ELSE IF u[i].shape = "object" THEN
        [threw |-> FALSE,
         usage |-> [u EXCEPT ![i].m =
                        Put(u[i].m, DEFAULT_MODEL, GetOr0(u[i].m, DEFAULT_MODEL) + tokens)]]
    ELSE
        [threw |-> FALSE, usage |-> [u EXCEPT ![i].shape = "corrupt"]]

\* the query count set to 1 instead of incremented
RecordAdd_CountOnce(tbl, key, inTok, outTok, queryType) ==
    LET r == IF key \in DOMAIN tbl THEN tbl[key] ELSE EmptyRecord
    IN  Put(tbl, key,
            [inputTokens  |-> r.inputTokens + inTok,
             outputTokens |-> r.outputTokens + outTok,
             queries      |-> Put(r.queries, queryType, 1)])

\* 2. and 3. Token and query tracking of one key (a date or a branch).
RecordAdd(tbl, key, inTok, outTok, queryType) ==
    LET r == IF key \in DOMAIN tbl THEN tbl[key] ELSE EmptyRecord
    IN  Put(tbl, key,
            [inputTokens  |-> r.inputTokens + inTok,
             outputTokens |-> r.outputTokens + outTok,
             queries      |-> Put(r.queries, queryType, GetOr0(r.queries, queryType) + 1)])

LiveUpdate(panel, u, t, p, branch) ==
    [command |-> "liveUpdate", to |-> panel, modelStats |-> u,
     tokenQueryStats |-> t, projectStats |-> p, currentBranch |-> branch]

\* The handler's working state: the store, the module variables it writes and
\* the record of what it called.
HandlerStart ==
    [usage |-> usage, tq |-> tq, proj |-> proj,
     cachedBranch |-> cachedBranch, branchLastChecked |-> branchLastChecked,
     sent |-> <<>>, edits |-> edits, failed |-> 0,
     persisted |-> Stored(persisted.disk),
     branches |-> <<>>, classifyCalls |-> 0, branchCalls |-> 0, execCalls |-> 0,
     threw |-> FALSE]

\* the live update posted outside try/catch
PushLiveUpdate_NoCatch(s, panel, t, env) ==
    IF panel = 0 THEN s
    ELSE
        LET g == getCurrentBranch(s.cachedBranch, s.branchLastChecked, t, env)
            msg == LiveUpdate(panel, s.usage, s.tq, s.proj, g.ret)
            delivered == ~g.raised /\ env.post = "ok"
        IN  [s EXCEPT !.cachedBranch = g.cachedBranch,
                      !.branchLastChecked = g.branchLastChecked,
                      !.branchCalls = @ + 1,
                      !.execCalls = @ + g.exec,
                      !.sent = IF delivered THEN Append(@, msg) ELSE @,
                      !.failed = IF delivered THEN @ ELSE @ + 1,
                      !.threw = ~delivered]

\* 4. Push the live update to the open dashboard panel.
PushLiveUpdate(s, panel, t, env) ==
    IF panel = 0 THEN s
    ELSE
        LET g == getCurrentBranch(s.cachedBranch, s.branchLastChecked, t, env)
            msg == LiveUpdate(panel, s.usage, s.tq, s.proj, g.ret)
            delivered == ~g.raised /\ env.post = "ok"
        IN  [s EXCEPT !.cachedBranch = g.cachedBranch,
                      !.branchLastChecked = g.branchLastChecked,
                      !.branchCalls = @ + 1,
                      !.execCalls = @ + g.exec,
                      !.sent = IF delivered THEN Append(@, msg) ELSE @,
                      !.failed = IF delivered THEN @ ELSE @ + 1]

\* The body of the loop over event.contentChanges for one change.
ProcessChange(s, id, d, t, panel, env) ==
    IF s.threw \/ ~CountsAsGenerated(EditLength[id]) THEN s
    ELSE
        LET newChars == EditLength[id]
            outTok == estimatedOutputTokens(newChars)
            inTok == estimatedInputTokens(outTok)
            estimatedTokens == inTok + outTok
            u == UsageAdd(s.usage, d, estimatedTokens)
            queryType == EditQueryType[id]
            g == getCurrentBranch(s.cachedBranch, s.branchLastChecked, t, env)
            dated == [s EXCEPT
                            !.usage = u.usage,
                            !.tq = RecordAdd(s.tq, d, inTok, outTok, queryType),
                            !.classifyCalls = @ + 1,
                            !.edits = [@ EXCEPT ![d] = @ + 1],
                            !.persisted =
                                Update(Update(@, "usage", u.usage, env),
                                       "tq", RecordAdd(s.tq, d, inTok, outTok, queryType),
                                       env)]
            tracked == [dated EXCEPT
                            !.proj = RecordAdd(s.proj, g.ret, inTok, outTok, queryType),
                            !.cachedBranch = g.cachedBranch,
                            !.branchLastChecked = g.branchLastChecked,
                            !.branchCalls = @ + 1,
                            !.execCalls = @ + g.exec,
                            !.branches = Append(@, g.ret),
                            !.persisted =
                                Update(@, "proj",
                                       RecordAdd(s.proj, g.ret, inTok, outTok, queryType),
                                       env)]
        IN  IF u.threw THEN [s EXCEPT !.threw = TRUE]
            ELSE IF g.raised THEN [dated EXCEPT !.threw = TRUE, !.branchCalls = @ + 1]
            ELSE PushLiveUpdate(tracked, panel, t, env)

\* each change applied to the tables as they were when the event began
RECURSIVE ProcessChanges_FromSnapshot(_, _, _, _, _, _)
ProcessChanges_FromSnapshot(s, changes, d, t, panel, env) ==
    IF changes = <<>> THEN s
    ELSE LET r == ProcessChange(s, Head(changes), d, t, panel, env)
         IN  IF Tail(changes) = <<>> THEN r
             ELSE ProcessChanges_FromSnapshot(
                      [r EXCEPT !.usage = s.usage, !.tq = s.tq, !.proj = s.proj],
                      Tail(changes), d, t, panel, env)

\* for (const change of event.contentChanges) { ... }
RECURSIVE ProcessChanges(_, _, _, _, _, _)
ProcessChanges(s, changes, d, t, panel, env) ==
    IF changes = <<>> THEN s
    ELSE ProcessChanges(ProcessChange(s, Head(changes), d, t, panel, env),
                        Tail(changes), d, t, panel, env)

Qualifying(changes) == {i \in 1..Len(changes) : CountsAsGenerated(EditLength[changes[i]])}

RECURSIVE TotalEdits(_, _)
TotalEdits(e, i) == IF i = 0 THEN 0 ELSE e[Dates[i]] + TotalEdits(e, i - 1)

\* the three tables as the operation about to run finds them
Tables == [usage |-> usage, tq |-> tq, proj |-> proj]

Ran(op) ==
    [op |-> op, changes |-> <<>>, date |-> "", branches |-> <<>>,
     classifyCalls |-> 0, branchCalls |-> 0, execCalls |-> 0, failed |-> 0]

\* vscode.workspace.onDidChangeTextDocument listener
OnDidChangeTextDocument(changes, env) ==
    /\ activated
    /\ TotalEdits(edits, Len(Dates)) + Cardinality(Qualifying(changes)) <= MaxEdits
    /\ LET s == ProcessChanges(HandlerStart, changes, Dates[today], now, activePanel, env)
       IN  /\ usage' = s.usage
           /\ tq' = s.tq
           /\ proj' = s.proj
           /\ cachedBranch' = s.cachedBranch
           /\ branchLastChecked' = s.branchLastChecked
           /\ sent' = s.sent
           /\ edits' = s.edits
           /\ last' = [op |-> "change", changes |-> changes, date |-> Dates[today],
                       branches |-> s.branches, classifyCalls |-> s.classifyCalls,
                       branchCalls |-> s.branchCalls, execCalls |-> s.execCalls,
                       failed |-> s.failed]
           /\ pre' = Tables
           /\ persisted' = s.persisted
    /\ UNCHANGED <<activated, now, today, panels, panelsCreated, activePanel,
                   seeded, cqText, cqResult, exportVars, loadVars, call, identityVars>>

-----------------------------------------------------------------------------
\* Activation: legacy migration, one-time seeding, project compaction.

\* stats[d] = { 'Gemini 1.5 Pro': rawStats[d] as number }
MigrateEntry(e) ==
    IF e.shape = "number"
    THEN ObjectEntry(e.k, Put(EmptyMap, DEFAULT_MODEL, e.n))
    ELSE [e EXCEPT !.shape = "nested"]

\* the legacy check without the look at the first value
LegacyDetected_AnyData(u) == Len(u) > 0

\* typeof rawStats[dates[0]] === 'number'
LegacyDetected(u) == Len(u) > 0 /\ u[1].shape = "number"

\* every date given the value of the first date
Migrate_FirstValue(u) ==
    IF LegacyDetected(u)
    THEN [i \in 1..Len(u) |-> ObjectEntry(u[i].k, Put(EmptyMap, DEFAULT_MODEL, u[1].n))]
    ELSE u

Migrate(u) ==
    IF LegacyDetected(u) THEN [i \in 1..Len(u) |-> MigrateEntry(u[i])] ELSE u

\* the record seeding writes for a date whose models sum to dayTotal
SeedRecord(dayTotal) ==
    IF dayTotal = NaN
    THEN [inputTokens |-> NaN, outputTokens |-> NaN,
          queries |-> Put(EmptyMap, "Coding", NaN)]
    ELSE [inputTokens  |-> CeilDiv(dayTotal * 2, 10),
          outputTokens |-> CeilDiv(dayTotal * 8, 10),
          queries      |-> Put(EmptyMap, "Coding", CeilDiv(dayTotal, SEED_QUERY_DIVISOR))]

\* seeding without the test that the token/query table is empty
SeedingRuns_NoGuard(stats, t) == Len(stats) > 0

SeedingRuns(stats, t) == DOMAIN t = {} /\ Len(stats) > 0

Seed(stats, t) ==
    IF SeedingRuns(stats, t)
    THEN [d \in UsageKeys(stats) |-> SeedRecord(DayTotal(stats[UsageIndex(stats, d)]))]
    ELSE t

\* a JavaScript number used as a condition
Truthy(n) == n # 0 /\ n # NaN

\* the cleanup test without the "unknown" key
Removable_SignatureOnly(key, r) ==
    /\ Cardinality(DOMAIN r.queries) = 1
    /\ "Coding" \in DOMAIN r.queries
    /\ Truthy(r.queries["Coding"])
    /\ r.queries["Coding"] = CeilDiv(r.inputTokens + r.outputTokens, SEED_QUERY_DIVISOR)

\* the test of the cleanup loop for one project entry
Removable(key, r) ==
    /\ Cardinality(DOMAIN r.queries) = 1
    /\ "Coding" \in DOMAIN r.queries
    /\ Truthy(r.queries["Coding"])
    /\ \/ r.queries["Coding"] = CeilDiv(r.inputTokens + r.outputTokens, SEED_QUERY_DIVISOR)
       \/ key = "unknown"

Compact(p) == [k \in {x \in DOMAIN p : ~Removable(x, p[x])} |-> p[k]]

\* activation with the seeding pass ahead of the legacy migration
Activate_SeedsBeforeMigration ==
    /\ activated' = TRUE
    /\ usage' = Migrate(usage)
    /\ tq' = Seed(usage, tq)
    /\ seeded' = IF SeedingRuns(usage, tq)
                 THEN [d \in UsageKeys(usage) |-> DayTotal(usage[UsageIndex(usage, d)])]
                 ELSE seeded
    /\ proj' = Compact(proj)
    /\ cachedBranch' = "unknown"
    /\ branchLastChecked' = 0
    /\ panels' = {}
    /\ panelsCreated' = 0
    /\ activePanel' = 0
    /\ last' = Ran("activate")
    /\ pre' = Tables
    /\ sent' = <<>>
    /\ persisted' = Stored([usage |-> Migrate(usage), tq |-> Seed(usage, tq),
                            proj |-> Compact(proj)])
    /\ userEmail' = "Guest"
    /\ UNCHANGED <<now, today, edits, cqText, cqResult, exportVars, loadVars, call,
                   storedUserId, exported>>

\* activate(context), in a new extension host: the module variables start
\* from their initialisers and no panel is open.
Activate ==
    /\ activated' = TRUE
    /\ usage' = Migrate(usage)
    /\ tq' = Seed(Migrate(usage), tq)
    /\ seeded' = IF SeedingRuns(Migrate(usage), tq)
                 THEN [d \in UsageKeys(usage) |->
                          DayTotal(Migrate(usage)[UsageIndex(usage, d)])]
                 ELSE seeded
    /\ proj' = Compact(proj)
    /\ cachedBranch' = "unknown"
    /\ branchLastChecked' = 0
    /\ panels' = {}
    /\ panelsCreated' = 0
    /\ activePanel' = 0
    /\ last' = Ran("activate")
    /\ pre' = Tables
    /\ sent' = <<>>
    /\ persisted' = Stored(
           [usage |-> IF LegacyDetected(usage) THEN Migrate(usage)
                      ELSE persisted.disk.usage,
            tq    |-> IF SeedingRuns(Migrate(usage), tq) THEN Seed(Migrate(usage), tq)
                      ELSE persisted.disk.tq,
            proj  |-> IF Compact(proj) # proj THEN Compact(proj)
                      ELSE persisted.disk.proj])
    /\ userEmail' = "Guest"
    /\ UNCHANGED <<now, today, edits, cqText, cqResult, exportVars, loadVars, call,
                   storedUserId, exported>>

-----------------------------------------------------------------------------
\* The dashboard panel.

\* antigravity.showDailyChart
OpenDashboard(env) ==
    /\ activated
    /\ LET g == getCurrentBranch(cachedBranch, branchLastChecked, now, env)
       IN  /\ cachedBranch' = g.cachedBranch
           /\ branchLastChecked' = g.branchLastChecked
           /\ last' = [Ran("showDailyChart") EXCEPT !.branchCalls = 1, !.execCalls = g.exec]
           /\ pre' = Tables
    /\ panelsCreated' = panelsCreated + 1
    /\ panels' = panels \cup {panelsCreated + 1}
    /\ activePanel' = panelsCreated + 1
    /\ sent' = <<>>
    /\ UNCHANGED <<activated, usage, tq, proj, now, today, edits,
                   seeded, cqText, cqResult, exportVars,
                   loadVars, call,
                   persisted, identityVars>>

ShowDailyChart(env) == panelsCreated < MaxPanels /\ OpenDashboard(env)

\* panel.onDidDispose(() => { activePanel = undefined; })
DisposePanel(p) ==
    /\ p \in panels
    /\ panels' = panels \ {p}
    /\ activePanel' = 0
    /\ last' = Ran("dispose")
    /\ pre' = Tables
    /\ sent' = <<>>
    /\ UNCHANGED <<activated, usage, tq, proj, cachedBranch, branchLastChecked,
                   now, today, panelsCreated, edits, seeded,
                   cqText, cqResult, exportVars, loadVars, call,
                   persisted, identityVars>>

\* case 'refreshData' of the panel's message handler
RefreshData(p, env) ==
    /\ p \in panels
    /\ LET g == getCurrentBranch(cachedBranch, branchLastChecked, now, env)
       IN  /\ cachedBranch' = g.cachedBranch
           /\ branchLastChecked' = g.branchLastChecked
           /\ last' = [Ran("refreshData") EXCEPT
                           !.branchCalls = 1, !.execCalls = g.exec,
                           !.failed = IF env.post = "ok" THEN 0 ELSE 1]
           /\ pre' = Tables
           /\ sent' = IF env.post = "ok"
                      THEN <<LiveUpdate(p, usage, tq, proj, g.ret)>>
                      ELSE <<>>
    /\ UNCHANGED <<activated, usage, tq, proj, now, today, panels,
                   panelsCreated, activePanel, edits, seeded, cqText, cqResult,
                   exportVars, loadVars, call,
                   persisted, identityVars>>

-----------------------------------------------------------------------------
\* The clock.

StartNow == 2 * BRANCH_STALE_MS

TickMs == BRANCH_STALE_MS \div 2

Advance ==
    /\ now' = now + TickMs
    /\ last' = Ran("tick")
    /\ pre' = Tables
    /\ sent' = <<>>
    /\ UNCHANGED <<activated, usage, tq, proj, cachedBranch, branchLastChecked,
                   today, panels, panelsCreated, activePanel, edits,
                   seeded, cqText, cqResult, exportVars, loadVars, call,
                   persisted, identityVars>>

Tick == now < StartNow + MaxTicks * TickMs /\ Advance

NextDay ==
    /\ today < Len(Dates)
    /\ today' = today + 1
    /\ last' = Ran("nextDay")
    /\ pre' = Tables
    /\ sent' = <<>>
    /\ UNCHANGED <<activated, usage, tq, proj, cachedBranch, branchLastChecked,
                   now, panels, panelsCreated, activePanel, edits,
                   seeded, cqText, cqResult, exportVars, loadVars, call,
                   persisted, identityVars>>

-----------------------------------------------------------------------------
\* The stores an installation can hold when this version first activates.

Queries1(c, n) == Put(EmptyMap, c, n)

Stats(i, o, q) == [inputTokens |-> i, outputTokens |-> o, queries |-> q]

\* a fresh installation
FreshStore == [usage |-> <<>>, proj |-> EmptyMap]

\* the old schema (date -> integer), no project data
LegacyStore ==
    [usage |-> <<NumberEntry(PastDate, 250), NumberEntry(Dates[1], 7)>>,
     proj  |-> EmptyMap]

\* per-model counts, and project data seeded by the earlier version with the
\* formula of the date table
SeededProjectStore ==
    [usage |-> <<ObjectEntry(Dates[1], Put(Put(EmptyMap, MODELS[1], 3), MODELS[3], 4))>>,
     proj  |-> Put(Put(Put(EmptyMap,
                   "main", Stats(2, 6, Queries1("Coding", 1))),
                   "unknown", Stats(50, 200, Queries1("Coding", 9))),
                   "idle", Stats(0, 0, Queries1("Coding", 0)))]

InitStores == {FreshStore, LegacyStore, SeededProjectStore}

InitWith(store) ==
    /\ activated = FALSE
    /\ usage = store.usage
    /\ tq = EmptyMap
    /\ proj = store.proj
    /\ cachedBranch = "unknown"
    /\ branchLastChecked = 0
    /\ now = StartNow
    /\ today = 1
    /\ panels = {}
    /\ panelsCreated = 0
    /\ activePanel = 0
    /\ last = Ran("init")
    /\ pre = store @@ [tq |-> EmptyMap]
    /\ sent = <<>>
    /\ edits = [d \in {Dates[i] : i \in 1..Len(Dates)} |-> 0]
    /\ seeded = EmptyMap
    /\ persisted = Stored(store @@ [tq |-> EmptyMap])

\* no classifier call, no export and no dashboard load under way
NoClassify == cqText = <<>> /\ cqResult = ""

NoExport ==
    /\ currentData = [kind |-> "missing", records |-> <<>>]
    /\ currentUserData = EmptyMap
    /\ preData = <<>>

NoLoad ==
    /\ files = <<>>
    /\ uniqueUsers = [done |-> FALSE, users |-> <<>>]
    /\ users = <<>>

\* no user id stored yet, the email not resolved, nothing exported
NoIdentity ==
    /\ storedUserId = ""
    /\ userEmail = "Guest"
    /\ exported = [doc |-> EmptyMap, at |-> 0]

NoCall ==
    call = [made |-> FALSE, cachedBranch |-> "unknown", branchLastChecked |-> 0,
            now |-> 0, api |-> "", exec |-> "nofolder",
            ret |-> "", execRan |-> 0, raised |-> FALSE]

Init ==
    /\ \E store \in InitStores : InitWith(store)
    /\ NoClassify
    /\ NoExport
    /\ NoLoad
    /\ NoCall
    /\ NoIdentity

RECURSIVE EventsUpTo(_)
EventsUpTo(n) ==
    IF n = 0 THEN {<<>>}
    ELSE LET E == EventsUpTo(n - 1)
         IN  E \cup {Append(e, id) : e \in E, id \in TextIds}

Events == EventsUpTo(MaxChanges)

Next ==
    \/ Activate
    \/ \E changes \in Events, env \in Envs(activePanel # 0) :
           OnDidChangeTextDocument(changes, env)
    \/ \E env \in Envs(FALSE) : ShowDailyChart(env)
    \/ \E p \in panels : DisposePanel(p)
    \/ \E p \in panels, env \in Envs(TRUE) : RefreshData(p, env)
    \/ Tick
    \/ NextDay

Spec == Init /\ [][Next]_vars

-----------------------------------------------------------------------------
\* The live broadcaster on its own: a fresh store, up to MaxLivePanels
\* dashboards, events of up to MaxLiveChanges qualifying changes, and every way
\* the Git API, the subprocess and postMessage can fail.

MaxLivePanels == 2
MaxLiveChanges == 2

RECURSIVE LiveEventsUpTo(_)
LiveEventsUpTo(n) ==
    IF n = 0 THEN {<<>>}
    ELSE LET E == LiveEventsUpTo(n - 1)
         IN  E \cup {Append(e, id) : e \in E, id \in {"bug120", "code31"}}

LiveEvents == LiveEventsUpTo(MaxLiveChanges) \ {<<>>}

InitLive ==
    /\ InitWith(FreshStore)
    /\ NoClassify
    /\ NoExport
    /\ NoLoad
    /\ NoCall
    /\ NoIdentity

ShowDailyChartLive(env) == panelsCreated < MaxLivePanels /\ OpenDashboard(env)

NextLive ==
    \/ Activate
    \/ \E changes \in LiveEvents, env \in LiveEnvs(activePanel # 0) :
           OnDidChangeTextDocument(changes, env)
    \/ \E env \in LiveEnvs(FALSE) : ShowDailyChartLive(env)
    \/ \E p \in panels : DisposePanel(p)
    \/ \E p \in panels, env \in LiveEnvs(TRUE) : RefreshData(p, env)

SpecLive == InitLive /\ [][NextLive]_vars

-----------------------------------------------------------------------------
\* The branch cache on its own: getCurrentBranch called again and again on the
\* module variables, by whichever caller, while the clock runs past the
\* staleness window.

MaxBranchTicks == 3

InitBranch == InitLive

GetCurrentBranch(env) ==
    /\ LET g == getCurrentBranch(cachedBranch, branchLastChecked, now, env)
       IN  /\ cachedBranch' = g.cachedBranch
           /\ branchLastChecked' = g.branchLastChecked
           /\ call' = [made |-> TRUE, cachedBranch |-> cachedBranch,
                       branchLastChecked |-> branchLastChecked, now |-> now,
                       api |-> env.api, exec |-> env.exec,
                       ret |-> g.ret, execRan |-> g.exec, raised |-> g.raised]
    /\ UNCHANGED <<activated, usage, tq, proj, now, today, panels, panelsCreated,
                   activePanel, last, pre, sent, edits, seeded, cqText, cqResult,
                   exportVars, loadVars, persisted, identityVars>>

TickBranch ==
    /\ now < StartNow + MaxBranchTicks * TickMs
    /\ now' = now + TickMs
    /\ UNCHANGED <<activated, usage, tq, proj, cachedBranch, branchLastChecked,
                   today, panels, panelsCreated, activePanel, last, pre, sent,
                   edits, seeded, cqText, cqResult, exportVars, loadVars,
                   call,
                   persisted, identityVars>>

NextBranch ==
    \/ \E env \in LiveEnvs(FALSE) : GetCurrentBranch(env)
    \/ TickBranch

SpecBranch == InitBranch /\ [][NextBranch]_vars

-----------------------------------------------------------------------------
\* The handler against a Memento whose writes to storage can be rejected: a
\* fresh store, one activation, events of up to MaxLiveChanges qualifying
\* changes, and for each event the set of keys whose writes are rejected.

PersistEnvs ==
    [api : {"main"}, exec : {"nofolder"}, post : {"ok"}, write : SUBSET StorageKeys]

InitPersist == InitLive

\* the extension host is started once: one Memento in memory throughout
ActivateFirst == ~activated /\ Activate

NextPersist ==
    \/ ActivateFirst
    \/ \E changes \in LiveEvents, env \in PersistEnvs :
           OnDidChangeTextDocument(changes, env)

SpecPersist == InitPersist /\ [][NextPersist]_vars

-----------------------------------------------------------------------------
\* Activation on the model-counts tables a store can hold: up to
\* MaxUsageEntries dates, each with an integer of the old schema or a
\* per-model mapping of the new one.  A table with both is what a store holds
\* that was written by both schema versions.

MaxUsageEntries == 2

UsageValues(d) ==
    {NumberEntry(d, 7), NumberEntry(d, 250),
     ObjectEntry(d, Put(EmptyMap, MODELS[1], 3)),
     ObjectEntry(d, Put(EmptyMap, MODELS[2], 4))}

RECURSIVE UsageTablesUpTo(_)
UsageTablesUpTo(n) ==
    IF n = 0 THEN {<<>>}
    ELSE LET T == UsageTablesUpTo(n - 1)
         IN  T \cup UNION {{Append(t, e) :
                               e \in UNION {UsageValues(d) :
                                               d \in {PastDate, Dates[1], Dates[2]}
                                                     \ UsageKeys(t)}} :
                           t \in T}

InitMigrate ==
    /\ \E u \in UsageTablesUpTo(MaxUsageEntries) :
           InitWith([usage |-> u, proj |-> EmptyMap])
    /\ NoClassify
    /\ NoExport
    /\ NoLoad
    /\ NoCall
    /\ NoIdentity

NextMigrate == Activate

SpecMigrate == InitMigrate /\ [][NextMigrate]_vars

-----------------------------------------------------------------------------
\* Change events of several content changes: every initial store, events of
\* up to MaxBatchChanges changes of any length, no panel, the Git API
\* reporting branch main.

MaxBatchChanges == 3

RECURSIVE BatchEventsUpTo(_)
BatchEventsUpTo(n) ==
    IF n = 0 THEN {<<>>}
    ELSE LET E == BatchEventsUpTo(n - 1)
         IN  E \cup {Append(e, id) : e \in E, id \in TextIds}

BatchEnv == [api |-> "main", exec |-> "nofolder", post |-> "ok", write |-> {}]

InitBatch == Init

NextBatch ==
    \/ ActivateFirst
    \/ \E changes \in BatchEventsUpTo(MaxBatchChanges) \ {<<>>} :
           OnDidChangeTextDocument(changes, BatchEnv)
    \/ NextDay

SpecBatch == InitBatch /\ [][NextBatch]_vars

-----------------------------------------------------------------------------
\* classifyQuery as a function of its text: the inputs are the concatenations
\* of up to MaxPieces pieces of a vocabulary.

Vocabulary ==
    { <<"e","r","r","o","r">>,
      <<"F","i","n","d">>,
      <<"r","e","a","d","m","e">>,
      <<"p","l","a","n">>,
      <<"f","u","n","c","t","i","o","n","(",")","{","}">>,
      <<";">>,
      <<" ">>,
      <<"s">>,
      <<"@","p","a","r","a","m">> }

RECURSIVE TextsUpTo(_)
TextsUpTo(n) ==
    IF n = 0 THEN {<<>>}
    ELSE LET T == TextsUpTo(n - 1)
         IN  T \cup {t \o v : t \in T, v \in Vocabulary}

InitClassify ==
    /\ InitWith(FreshStore)
    /\ cqText \in TextsUpTo(MaxPieces)
    /\ cqResult = ""
    /\ NoExport
    /\ NoLoad
    /\ NoCall
    /\ NoIdentity

Classify ==
    /\ cqResult = ""
    /\ cqResult' = classifyQuery(cqText)
    /\ UNCHANGED <<activated, usage, tq, proj, cachedBranch, branchLastChecked,
                   now, today, panels, panelsCreated, activePanel,
                   last, pre, sent, edits, seeded, cqText, exportVars, loadVars, call,
                   persisted, identityVars>>

NextClassify == Classify

SpecClassify == InitClassify /\ [][NextClassify]_vars

-----------------------------------------------------------------------------
\* Reading the tables, for the properties below.

Categories == {QUERY_TYPES[i] : i \in 1..Len(QUERY_TYPES)}

ModelNames == {MODELS[i] : i \in 1..Len(MODELS)}

\* the (date, model) cell of a model-counts table, 0 when absent
Cell(u, d, m) ==
    LET i == UsageIndex(u, d)
    IN  IF i # 0 /\ u[i].shape = "object" THEN GetOr0(u[i].m, m) ELSE 0

\* the tokens a date holds, in either schema
DateValue(u, d) ==
    LET i == UsageIndex(u, d)
    IN  IF i = 0 THEN 0
        ELSE IF u[i].shape = "number" THEN u[i].n
        ELSE SumValues(u[i].m)

InTok(tbl, k) == IF k \in DOMAIN tbl THEN tbl[k].inputTokens ELSE 0

OutTok(tbl, k) == IF k \in DOMAIN tbl THEN tbl[k].outputTokens ELSE 0

Count(tbl, k, c) == IF k \in DOMAIN tbl THEN GetOr0(tbl[k].queries, c) ELSE 0

QueryKeys(tbl, k) == IF k \in DOMAIN tbl THEN DOMAIN tbl[k].queries ELSE {}

\* the least integer x with x * b >= a
CeilOf(a, b) == CHOOSE x \in 0..a : x * b >= a /\ (x = 0 \/ (x - 1) * b < a)

\* table now differs from table was by one record increment at key
RecordGrewBy(tblNow, tblWas, key, inTok, outTok, c) ==
    /\ DOMAIN tblNow = (DOMAIN tblWas) \cup {key}
    /\ \A k \in (DOMAIN tblWas) \ {key} : tblNow[k] = tblWas[k]
    /\ InTok(tblNow, key) = InTok(tblWas, key) + inTok
    /\ OutTok(tblNow, key) = OutTok(tblWas, key) + outTok
    /\ QueryKeys(tblNow, key) = QueryKeys(tblWas, key) \cup {c}
    /\ \A c2 \in Categories :
           Count(tblNow, key, c2) = Count(tblWas, key, c2) + (IF c2 = c THEN 1 ELSE 0)

\* model counts now differ from model counts was by tokens in one cell
UsageGrewBy(uNow, uWas, d, m, tokens) ==
    /\ UsageKeys(uNow) = UsageKeys(uWas) \cup {d}
    /\ \A d2 \in UsageKeys(uWas) \ {d} :
           uNow[UsageIndex(uNow, d2)] = uWas[UsageIndex(uWas, d2)]
    /\ \A m2 \in ModelNames :
           Cell(uNow, d, m2) = Cell(uWas, d, m2) + (IF m2 = m THEN tokens ELSE 0)

ChangeRan == last.op = "change"

ActivateRan == last.op = "activate"

LongChanges(changes) == {i \in 1..Len(changes) : EditLength[changes[i]] > 30}

-----------------------------------------------------------------------------
\* C1.  A content change whose text is longer than 30 characters, handled on
\* date d while the branch resolver answers b and the text classifies as c,
\* adds out = ceil(n/4) and in = ceil(out/5) to the token fields of
\* TokenQueryRecord[d] and of ProjectRecord[b], in + out to
\* DailyModelCounts[d]['Gemini 1.5 Pro'] and 1 to queries[c] of both records,
\* and changes no other date, model, branch or category cell.  (Stated for an
\* event in which one change is longer than 30 characters.)
C1_QualifyingChangeIncrements ==
    (ChangeRan /\ Cardinality(LongChanges(last.changes)) = 1) =>
        LET i == CHOOSE j \in LongChanges(last.changes) : TRUE
            n == EditLength[last.changes[i]]
            c == classifyQuery(EditText[last.changes[i]])
            outTok == CeilOf(n, 4)
            inTok == CeilOf(outTok, 5)
            d == last.date
        IN  /\ Len(last.branches) = 1
            /\ UsageGrewBy(usage, pre.usage, d, "Gemini 1.5 Pro", inTok + outTok)
            /\ RecordGrewBy(tq, pre.tq, d, inTok, outTok, c)
            /\ RecordGrewBy(proj, pre.proj, last.branches[1], inTok, outTok, c)

\* The 120-character text with the word "bug", on 2024-01-01 on branch main:
\* 30 output and 6 input tokens, 36 on the model cell, one Debugging query.
C1_Witness ==
    /\ ChangeRan
    /\ last.changes = <<"bug120">>
    /\ last.date = "2024-01-01"
    /\ last.branches = <<"main">>
    /\ Cell(usage, "2024-01-01", "Gemini 1.5 Pro")
         = Cell(pre.usage, "2024-01-01", "Gemini 1.5 Pro") + 36
    /\ OutTok(tq, "2024-01-01") = OutTok(pre.tq, "2024-01-01") + 30
    /\ InTok(proj, "main") = InTok(pre.proj, "main") + 6
    /\ Count(tq, "2024-01-01", "Debugging") = Count(pre.tq, "2024-01-01", "Debugging") + 1
    /\ Count(proj, "main", "Debugging") = Count(pre.proj, "main", "Debugging") + 1

\* C2.  A change event whose texts all have at most 30 characters leaves the
\* three tables as they were, calls neither the classifier nor the branch
\* resolver, and posts no live update.
C2_ShortChangeIsIgnored ==
    (ChangeRan /\ LongChanges(last.changes) = {}) =>
        /\ usage = pre.usage
        /\ tq = pre.tq
        /\ proj = pre.proj
        /\ last.classifyCalls = 0
        /\ last.branchCalls = 0
        /\ last.execCalls = 0
        /\ sent = <<>>

\* a 30-character text was handled while a dashboard panel was open
C2_Witness ==
    /\ ChangeRan
    /\ last.changes = <<"short30">>
    /\ activePanel # 0
    /\ activePanel \in panels
    /\ DOMAIN tq # {}

-----------------------------------------------------------------------------
\* The rules of the classifier in their fixed order, each stated on its own.

RuleOrder == <<"Debugging", "Search", "Documentation", "Planning", "Coding">>

RuleMatches(rule, text) ==
    LET lower == toLowerCase(text) IN
    CASE rule = "Debugging"     -> TestWords(DebuggingWords, lower)
      [] rule = "Search"        -> TestWords(SearchWords, lower)
      [] rule = "Documentation" -> TestWords(DocumentationWords, lower)
      [] rule = "Planning"      -> TestWords(PlanningWords, lower)
      [] rule = "Coding"        -> TestWords(CodingWords, lower) \/ TestPunctuation(text)

\* C3.  classifyQuery is a total first-match cascade: the result is the
\* category of the first rule, in the order Debugging, Search, Documentation,
\* Planning, Coding, that matches the text, and General Question exactly when
\* none matches; a text matching a Debugging keyword and a Coding keyword or
\* bracket/semicolon punctuation classifies as Debugging.
C3_FirstMatchWins ==
    (cqResult # "") =>
        LET hits == {i \in 1..Len(RuleOrder) : RuleMatches(RuleOrder[i], cqText)}
        IN  /\ cqResult \in Categories
            /\ (hits = {}) <=> (cqResult = "General Question")
            /\ hits # {} =>
                   /\ cqResult = RuleOrder[CHOOSE i \in hits : \A j \in hits : i <= j]
            /\ (1 \in hits /\ 5 \in hits) => cqResult = "Debugging"

\* "error function(){}" has been classified, as Debugging
C3_Witness ==
    /\ cqText = <<"e","r","r","o","r"," ","f","u","n","c","t","i","o","n","(",")","{","}">>
    /\ RuleMatches("Debugging", cqText)
    /\ RuleMatches("Coding", cqText)
    /\ cqResult = "Debugging"

-----------------------------------------------------------------------------
\* History read by the properties of the token/query table.

EditsOn(d) == IF d \in DOMAIN edits THEN edits[d] ELSE 0

\* the Coding count one-time seeding gave date d
SeededQueries(d) == IF d \in DOMAIN seeded THEN CeilOf(seeded[d], 100) ELSE 0

\* by how much the two seeded token fields of date d exceed its day total
SeedExcess(d) ==
    IF d \in DOMAIN seeded
    THEN CeilOf(2 * seeded[d], 10) + CeilOf(8 * seeded[d], 10) - seeded[d]
    ELSE 0

\* C4 as claimed.  For every date d of the token/query table, the sum of the
\* values of TokenQueryRecord[d].queries equals the number of qualifying
\* changes recorded for d.
C4_QueriesCountEdits ==
    \A d \in DOMAIN tq : SumValues(tq[d].queries) = EditsOn(d)

\* C4 as amended.  For every date d of the token/query table, the sum of the
\* values of TokenQueryRecord[d].queries equals the number of qualifying
\* changes recorded for d plus, when one-time seeding created the record from
\* a day total t, the seeded Coding count ceil(t/100).
C4_QueriesCountEditsAndSeed ==
    \A d \in DOMAIN tq : SumValues(tq[d].queries) = EditsOn(d) + SeededQueries(d)

\* a seeded date and an unseeded date, each with a change recorded on it
C4_Witness ==
    \E d1 \in DOMAIN tq, d2 \in DOMAIN tq :
        /\ d1 \in DOMAIN seeded /\ SeededQueries(d1) > 0 /\ EditsOn(d1) > 0
        /\ d2 \notin DOMAIN seeded /\ EditsOn(d2) > 0

\* C5 as claimed.  For every date d of the token/query table, the sum over
\* models of DailyModelCounts[d] equals inputTokens + outputTokens of
\* TokenQueryRecord[d].
C5_ModelSumIsTokenSum ==
    \A d \in DOMAIN tq : DateValue(usage, d) = tq[d].inputTokens + tq[d].outputTokens

\* C5 as amended.  For every date d of the token/query table, inputTokens +
\* outputTokens equals the sum over models of DailyModelCounts[d] when seeding
\* did not create the record; when seeding created it from a day total t the
\* two fields exceed the model sum by ceil(0.2 t) + ceil(0.8 t) - t, which is
\* 0 when t is a multiple of 5 and 1 otherwise.
C5_ModelSumIsTokenSumUpToSeed ==
    \A d \in DOMAIN tq :
        /\ tq[d].inputTokens + tq[d].outputTokens = DateValue(usage, d) + SeedExcess(d)
        /\ d \in DOMAIN seeded =>
               SeedExcess(d) = (IF seeded[d] % 5 = 0 THEN 0 ELSE 1)

\* a date seeded from a total that is no multiple of 5, with a later change
C5_Witness ==
    \E d \in DOMAIN tq :
        /\ d \in DOMAIN seeded
        /\ SeedExcess(d) = 1
        /\ EditsOn(d) > 0
        /\ tq[d].inputTokens + tq[d].outputTokens = DateValue(usage, d) + 1

\* C6.  No (date, model) cell of the model-counts table and no inputTokens or
\* outputTokens field of a token/query record decreases in any operation, and
\* activation (with the legacy migration rewrite) keeps each date's value.
C6_CountersNeverDecrease ==
    /\ \A d \in UsageKeys(pre.usage) :
           /\ d \in UsageKeys(usage)
           /\ DateValue(usage, d) >= DateValue(pre.usage, d)
           /\ \A m \in ModelNames : Cell(usage, d, m) >= Cell(pre.usage, d, m)
           /\ ActivateRan => DateValue(usage, d) = DateValue(pre.usage, d)
    /\ \A d \in DOMAIN pre.tq :
           /\ d \in DOMAIN tq
           /\ tq[d].inputTokens >= pre.tq[d].inputTokens
           /\ tq[d].outputTokens >= pre.tq[d].outputTokens

\* the migration has rewritten a legacy table of two dates
C6_Witness ==
    /\ ActivateRan
    /\ Len(pre.usage) = 2
    /\ \A i \in 1..Len(pre.usage) : pre.usage[i].shape = "number"
    /\ \A i \in 1..Len(usage) : usage[i].shape = "object"
    /\ DateValue(usage, PastDate) = 250

AllOfShape(u, shape) == \A i \in 1..Len(u) : u[i].shape = shape

RECURSIVE TotalTokens(_, _)
TotalTokens(u, i) == IF i = 0 THEN 0 ELSE DateValue(u, u[i].k) + TotalTokens(u, i - 1)

\* C7.  Activation rewrites a model-counts table in the old schema entry by
\* entry to { 'Gemini 1.5 Pro': integer }, with the same sum of tokens; the
\* table it leaves has no legacy entry, and activation on a table without
\* legacy entries leaves it identical.
C7_MigrationIdempotent ==
    ActivateRan =>
        /\ (Len(pre.usage) > 0 /\ AllOfShape(pre.usage, "number")) =>
               /\ Len(usage) = Len(pre.usage)
               /\ \A i \in 1..Len(usage) :
                      usage[i] = [k |-> pre.usage[i].k, shape |-> "object", n |-> 0,
                                  m |-> [x \in {"Gemini 1.5 Pro"} |-> pre.usage[i].n]]
               /\ TotalTokens(usage, Len(usage)) = TotalTokens(pre.usage, Len(pre.usage))
        /\ AllOfShape(pre.usage, "object") => usage = pre.usage
        /\ AllOfShape(usage, "object")

\* the second activation on a migrated table
C7_Witness ==
    /\ ActivateRan
    /\ usage = pre.usage
    /\ usage = <<[k |-> "2023-12-31", shape |-> "object", n |-> 0,
                  m |-> [x \in {"Gemini 1.5 Pro"} |-> 250]],
                 [k |-> "2024-01-01", shape |-> "object", n |-> 0,
                  m |-> [x \in {"Gemini 1.5 Pro"} |-> 7]]>>

\* C8.  Activation writes the token/query table only when that table has no
\* keys and the model-counts table has a date, and then it writes one record
\* per date; a non-empty token/query table is left unchanged by activation.
C8_SeedingOnlyWhenEmpty ==
    ActivateRan =>
        /\ tq # pre.tq => (DOMAIN pre.tq = {} /\ Len(pre.usage) > 0)
        /\ (DOMAIN pre.tq = {} /\ Len(pre.usage) > 0) => DOMAIN tq = UsageKeys(pre.usage)
        /\ DOMAIN pre.tq # {} => tq = pre.tq

\* an activation that found a seeded table with a later change in it
C8_Witness ==
    /\ ActivateRan
    /\ DOMAIN seeded # {}
    /\ \E d \in DOMAIN seeded : EditsOn(d) > 0
    /\ DOMAIN pre.tq # {}
    /\ tq = pre.tq

\* queries = { Coding: ceil((inputTokens + outputTokens) / 100) }
HasSeedSignature(r) ==
    /\ DOMAIN r.queries = {"Coding"}
    /\ r.queries["Coding"] = CeilOf(r.inputTokens + r.outputTokens, 100)

\* C9 as claimed.  Activation removes every project entry whose queries map is
\* exactly { Coding: ceil((inputTokens + outputTokens) / 100) } and keeps every
\* entry whose queries map has two or more categories.
C9_CompactionBySignature ==
    ActivateRan =>
        \A k \in DOMAIN pre.proj :
            /\ HasSeedSignature(pre.proj[k]) => k \notin DOMAIN proj
            /\ Cardinality(DOMAIN pre.proj[k].queries) >= 2 =>
                   (k \in DOMAIN proj /\ proj[k] = pre.proj[k])

\* C10 as claimed.  Activation deletes every project entry whose key is
\* "unknown", whatever its queries map holds.
C10_UnknownAlwaysDeleted ==
    ActivateRan => "unknown" \notin DOMAIN proj

\* C10 as amended.  Activation deletes the project entry whose key is
\* "unknown" exactly when its queries map has the single key Coding with a
\* count that is not zero, whatever that count is; an "unknown" entry with any
\* other queries map is kept as it is.
C10_UnknownDeletedWhenCodingOnly ==
    ActivateRan =>
        IF "unknown" \in DOMAIN pre.proj
        THEN LET q == pre.proj["unknown"].queries
             IN  IF DOMAIN q = {"Coding"} /\ q["Coding"] # 0
                 THEN "unknown" \notin DOMAIN proj
                 ELSE "unknown" \in DOMAIN proj /\ proj["unknown"] = pre.proj["unknown"]
        ELSE "unknown" \notin DOMAIN proj

\* an "unknown" entry was deleted although its Coding count is not the
\* seeding signature
C10_Witness ==
    /\ ActivateRan
    /\ "unknown" \in DOMAIN pre.proj
    /\ ~HasSeedSignature(pre.proj["unknown"])
    /\ "unknown" \notin DOMAIN proj

\* C11.  A project record that was created and accumulated solely by
\* qualifying changes is still present, with the same counts, after any later
\* activation.  (The store of SpecLive starts empty: every record of its
\* project table was created and accumulated by qualifying changes.)
C11_EarnedRecordsSurviveActivation ==
    ActivateRan =>
        \A k \in DOMAIN pre.proj :
            k \in DOMAIN proj /\ proj[k] = pre.proj[k]

-----------------------------------------------------------------------------
\* Reading the messages of the operation that ran last.

SentTo(p) == SelectSeq(sent, LAMBDA msg : msg.to = p)

\* the message carries the three tables and the branch as they are now
IsFullSnapshot(msg) ==
    /\ msg.command = "liveUpdate"
    /\ msg.modelStats = usage
    /\ msg.tokenQueryStats = tq
    /\ msg.projectStats = proj
    /\ msg.currentBranch = cachedBranch

\* the queries recorded for the date of the last operation in a token/query table
QueriesOn(t) == IF last.date \in DOMAIN t THEN SumValues(t[last.date].queries) ELSE 0

\* C12.  After each qualifying change has been applied to the three tables,
\* every dashboard panel open at that moment receives a liveUpdate message with
\* the three tables including that change and the current branch: when no
\* delivery of the event failed, each open panel got one message per change
\* of the event, the i-th with the tables up to the i-th change and the last
\* with the tables as they are now.
C12_EveryOpenPanelGetsLiveUpdate ==
    (ChangeRan /\ last.failed = 0) =>
        \A p \in panels :
            LET got == SentTo(p)
                n == Cardinality(Qualifying(last.changes))
            IN  /\ Len(got) = n
                /\ n > 0 => IsFullSnapshot(got[n])
                /\ \A i \in 1..Len(got) :
                       QueriesOn(got[i].tokenQueryStats) = QueriesOn(pre.tq) + i

RECURSIVE TokensOf(_)
TokensOf(changes) ==
    IF changes = <<>> THEN 0
    ELSE (IF CountsAsGenerated(EditLength[Head(changes)])
          THEN estimatedOutputTokens(EditLength[Head(changes)])
               + estimatedInputTokens(estimatedOutputTokens(EditLength[Head(changes)]))
          ELSE 0) + TokensOf(Tail(changes))

\* the queries recorded in a project table, over all branches
ProjectQueries(tbl) == SumOver([k \in DOMAIN tbl |-> SumValues(tbl[k].queries)], DOMAIN tbl)

\* the handler ran with a panel to post to and a delivery failed
DeliveryFailed ==
    /\ ChangeRan
    /\ activePanel # 0
    /\ last.failed > 0

\* C13.  A live update that cannot be delivered is swallowed: the increments of
\* every qualifying change of the event are applied to the three tables and
\* every change of the event is processed; and whatever was missed before, a
\* message that is delivered, by a later change or by refreshData, carries the
\* three tables in full as they are then.
C13_FailedDeliveryIsSwallowed ==
    /\ DeliveryFailed =>
           LET n == Cardinality(Qualifying(last.changes))
           IN  /\ Len(sent) + last.failed = n
               /\ last.classifyCalls = n
               /\ Len(last.branches) = n
               /\ QueriesOn(tq) = QueriesOn(pre.tq) + n
               /\ ProjectQueries(proj) = ProjectQueries(pre.proj) + n
               /\ DateValue(usage, last.date)
                      = DateValue(pre.usage, last.date) + TokensOf(last.changes)
    /\ (sent # <<>> /\ last.op \in {"change", "refreshData"}) =>
           IsFullSnapshot(sent[Len(sent)])

\* an event of two qualifying changes whose deliveries both failed
C13_Witness ==
    /\ DeliveryFailed
    /\ Len(last.changes) = 2
    /\ sent = <<>>
    /\ QueriesOn(tq) = QueriesOn(pre.tq) + 2
    /\ ProjectQueries(proj) = ProjectQueries(pre.proj) + 2

-----------------------------------------------------------------------------
\* Reading the last getCurrentBranch call (SpecBranch).

\* the call found a cache that is older than the staleness window
CacheStale == call.now - call.branchLastChecked >= BRANCH_STALE_MS

\* the call found a cache that holds no branch name
CacheInvalid == call.cachedBranch \in {"unknown", "no-git-repo"}

\* a call that found the failure of an earlier fallback in the cache, less than
\* 10 seconds old, with the Git API still without a branch name
CallAfterFailure ==
    /\ call.made
    /\ ~ApiHasBranch(call)
    /\ call.cachedBranch = "no-git-repo"
    /\ ~CacheStale

C15_FallbackOnlyWhenStaleOrInvalid ==
    (call.made /\ ~ApiHasBranch(call)) =>
        /\ call.execRan = 1 => (CacheStale \/ CacheInvalid)
        /\ ~(CacheStale \/ CacheInvalid) =>
               /\ call.execRan = 0
               /\ call.ret = call.cachedBranch
               /\ cachedBranch = call.cachedBranch
               /\ branchLastChecked = call.branchLastChecked

\* a call 5 seconds after a successful fallback, in a folder where the
\* subprocess would now fail: the cached branch is returned
C15_Witness ==
    /\ call.made
    /\ ~ApiHasBranch(call)
    /\ call.cachedBranch = "main"
    /\ call.branchLastChecked > 0
    /\ call.now - call.branchLastChecked = TickMs
    /\ call.exec = "fail"
    /\ call.execRan = 0
    /\ call.ret = "main"

-----------------------------------------------------------------------------
\* Reading the branches the handler keyed its project increments on.

BranchesOf(op) == {op.branches[i] : i \in 1..Len(op.branches)}

\* the changes of the last event whose project increment went to branch b
ChangesOn(b) ==
    SelectSeq([i \in 1..Len(last.branches) |->
                  IF last.branches[i] = b THEN last.changes[i] ELSE "short30"],
              LAMBDA id : id # "short30")

RecordTokens(tbl, k) == InTok(tbl, k) + OutTok(tbl, k)

RecordQueries(tbl, k) == IF k \in DOMAIN tbl THEN SumValues(tbl[k].queries) ELSE 0

\* C16.  getCurrentBranch never raises, whether the Git API throws, the
\* subprocess errors or it times out: every qualifying change of an event gets
\* a branch string, and the change is recorded in all three tables, the
\* project increment under the string returned, a sentinel ("no-git-repo",
\* "unknown") like any other branch name.
C16_ResolverNeverRaises ==
    ChangeRan =>
        LET n == Cardinality(Qualifying(last.changes))
        IN  /\ Len(last.branches) = n
            /\ BranchesOf(last) \subseteq {"main", "unknown", "no-git-repo"}
            /\ QueriesOn(tq) = QueriesOn(pre.tq) + n
            /\ RecordTokens(tq, last.date)
                   = RecordTokens(pre.tq, last.date) + TokensOf(last.changes)
            /\ DateValue(usage, last.date)
                   = DateValue(pre.usage, last.date) + TokensOf(last.changes)
            /\ \A b \in BranchesOf(last) :
                   /\ b \in DOMAIN proj
                   /\ RecordQueries(proj, b)
                          = RecordQueries(pre.proj, b) + Len(ChangesOn(b))
                   /\ RecordTokens(proj, b)
                          = RecordTokens(pre.proj, b) + TokensOf(ChangesOn(b))

\* two changes recorded while the subprocess failed: both under "no-git-repo"
C16_Witness ==
    /\ ChangeRan
    /\ last.branches = <<"no-git-repo", "no-git-repo">>
    /\ last.execCalls >= 2
    /\ RecordQueries(proj, "no-git-repo") = RecordQueries(pre.proj, "no-git-repo") + 2
    /\ QueriesOn(tq) = QueriesOn(pre.tq) + 2

-----------------------------------------------------------------------------
\* antigravity.exportAndUpload: the current user's export merged into the
\* dashboard data file.  A record is a map from field names to values, as the
\* JSON object is.  The copy saved through the save dialog is written to a
\* file nothing reads back and is not part of the state.

MaxExisting == 2    \* records in the dashboard data file at the start
MaxRecords == 3     \* records in the dashboard data file

\* { ...a, ...b }
Spread_ExistingWins(a, b) ==
    [k \in (DOMAIN a) \cup (DOMAIN b) |-> IF k \in DOMAIN a THEN a[k] ELSE b[k]]

Spread(a, b) ==
    [k \in (DOMAIN a) \cup (DOMAIN b) |-> IF k \in DOMAIN b THEN b[k] ELSE a[k]]

\* obj[field], with "" for undefined
Field(obj, field) == IF field \in DOMAIN obj THEN obj[field] ELSE ""

GUEST_EMAIL == "exported_user@example.com"

\* `user_${Date.now()}`
NewUserId(t) == "user_" \o ToString(t)

\* a user id generated whatever globalState holds
EnsureUserId_Regenerates(stored, t) == NewUserId(t)

\* "Ensure consistent userId": the stored id, or a new one that is then stored
EnsureUserId(stored, t) == IF stored # "" THEN stored ELSE NewUserId(t)

\* the document getExportData() returns
getExportData ==
    Put(Put(Put(Put(Put(EmptyMap,
        "userId", EnsureUserId(storedUserId, now)),
        "email", IF userEmail # "Guest" THEN userEmail ELSE GUEST_EMAIL),
        "usage", usage),
        "tokenQuery", tq),
        "projects", proj)

\* `https://api.dicebear.com/7.x/avataaars/svg?seed=${userId}`
AvatarUrl_FixedSeed(userId) == <<"https://api.dicebear.com/7.x/avataaars/svg?seed=", "user">>

AvatarUrl(userId) == <<"https://api.dicebear.com/7.x/avataaars/svg?seed=", userId>>

Matches(u, incoming) ==
    \/ Field(u, "userId") = incoming["userId"]
    \/ Field(u, "email") = incoming["email"]

\* the highest matching index instead of the lowest
findIndex_Last(data, incoming) ==
    LET hits == {i \in 1..Len(data) : Matches(data[i], incoming)}
    IN  IF hits = {} THEN 0 ELSE CHOOSE i \in hits : \A j \in hits : j <= i

\* currentData.findIndex(u => u.userId === ... || u.email === ...), 0 for -1
findIndex(data, incoming) ==
    LET hits == {i \in 1..Len(data) : Matches(data[i], incoming)}
    IN  IF hits = {} THEN 0 ELSE CHOOSE i \in hits : \A j \in hits : i <= j

\* the current user added whether or not a record matches
Merge_AlwaysAppends(data, incoming) ==
    Append(data, Spread(incoming,
        Put(EmptyMap, "avatarUrl", AvatarUrl(incoming["userId"]))))

\* "Update or Add current user"
Merge(data, incoming) ==
    LET existingIndex == findIndex(data, incoming)
    IN  IF existingIndex > 0
        THEN [data EXCEPT ![existingIndex] = Spread(data[existingIndex], incoming)]
        ELSE Append(data, Spread(incoming,
                 Put(EmptyMap, "avatarUrl", AvatarUrl(incoming["userId"]))))

\* The data file: missing, not parseable, one JSON object, or a JSON array.
DataFile(kind, records) == [kind |-> kind, records |-> records]

\* let currentData = []; try { json = JSON.parse(...); array ? json : [json] }
ReadCollection(file) == IF file.kind \in {"array", "object"} THEN file.records ELSE <<>>

ExistingRecord(userId, email, withAvatar) ==
    LET base == Put(Put(Put(Put(Put(EmptyMap,
                   "userId", userId),
                   "email", email),
                   "usage", <<ObjectEntry(PastDate, Put(EmptyMap, DEFAULT_MODEL, 5))>>),
                   "tokenQuery", Put(EmptyMap, PastDate, Stats(1, 4, Queries1("Coding", 1)))),
                   "projects", Put(EmptyMap, "old", Stats(1, 4, Queries1("Coding", 1))))
    IN  IF withAvatar
        THEN Put(base, "avatarUrl", <<"https://example.com/", "me.png">>)
        ELSE base

ExistingRecords ==
    {ExistingRecord(id, mail, av) :
        id \in {"user_1", "user_2"},
        mail \in {"a@example.com", GUEST_EMAIL},
        av \in BOOLEAN}

RECURSIVE CollectionsUpTo(_)
CollectionsUpTo(n) ==
    IF n = 0 THEN {<<>>}
    ELSE LET C == CollectionsUpTo(n - 1)
         IN  C \cup {Append(c, r) : c \in C, r \in ExistingRecords}

DataFiles ==
    {DataFile("missing", <<>>), DataFile("corrupt", <<>>)}
    \cup {DataFile("object", <<r>>) : r \in ExistingRecords}
    \cup {DataFile("array", c) : c \in CollectionsUpTo(MaxExisting)}

InitMerge ==
    /\ \E store \in InitStores : InitWith(store)
    /\ NoClassify
    /\ NoLoad
    /\ NoCall
    /\ storedUserId \in {"", "user_1", "user_3"}
    /\ userEmail = "Guest"
    /\ exported = [doc |-> EmptyMap, at |-> 0]
    /\ currentData \in DataFiles
    /\ currentUserData = EmptyMap
    /\ preData = <<>>

\* The command, from getExportData() to the write of the data file; without
\* the data file (fs.existsSync is false) it warns and writes nothing.
ExportAndUpload ==
    /\ Len(currentData.records) < MaxRecords
    /\ storedUserId' = EnsureUserId(storedUserId, now)
    /\ exported' = [doc |-> getExportData, at |-> now]
    /\ currentUserData' = getExportData
    /\ IF currentData.kind = "missing"
       THEN UNCHANGED <<currentData, preData>>
       ELSE /\ preData' = ReadCollection(currentData)
            /\ currentData' = DataFile("array",
                                  Merge(ReadCollection(currentData), getExportData))
    /\ UNCHANGED <<activated, usage, tq, proj, cachedBranch, branchLastChecked,
                   now, today, panels, panelsCreated, activePanel, last, pre,
                   sent, edits, seeded, cqText, cqResult, loadVars, call,
                   persisted, userEmail>>

\* antigravity.exportStats: the document is built, then saved where the user
\* says, or not at all when the dialog is dismissed
ExportStats ==
    /\ storedUserId' = EnsureUserId(storedUserId, now)
    /\ exported' = [doc |-> getExportData, at |-> now]
    /\ UNCHANGED <<activated, usage, tq, proj, cachedBranch, branchLastChecked,
                   now, today, panels, panelsCreated, activePanel, last, pre,
                   sent, edits, seeded, cqText, cqResult, exportVars, loadVars,
                   call, persisted, userEmail>>

\* the background resolution started by activate() ends with an email: once
\* in an extension host, and the open dashboard is told
ResolveEmail(email) ==
    /\ userEmail = "Guest"
    /\ userEmail' = email
    /\ sent' = IF activePanel = 0 THEN <<>>
               ELSE <<[command |-> "updateEmail", to |-> activePanel, email |-> email]>>
    /\ last' = Ran("resolveEmail")
    /\ pre' = Tables
    /\ UNCHANGED <<activated, usage, tq, proj, cachedBranch, branchLastChecked,
                   now, today, panels, panelsCreated, activePanel, edits, seeded,
                   cqText, cqResult, exportVars, loadVars, call, persisted,
                   storedUserId, exported>>

NextMerge ==
    \/ ExportAndUpload
    \/ \E email \in {"a@example.com", "b@example.com"} : ResolveEmail(email)

SpecMerge == InitMerge /\ [][NextMerge]_vars

-----------------------------------------------------------------------------
\* The two export commands over the life of an installation: a fresh store
\* with no user id, the data file missing or an empty array, the clock
\* running, the email resolved in the background, the extension host
\* restarted.

MaxExportTicks == 2

InitExport ==
    /\ InitWith(FreshStore)
    /\ NoClassify
    /\ NoLoad
    /\ NoCall
    /\ NoIdentity
    /\ currentData \in {DataFile("missing", <<>>), DataFile("array", <<>>)}
    /\ currentUserData = EmptyMap
    /\ preData = <<>>

TickExport ==
    /\ now < StartNow + MaxExportTicks * TickMs
    /\ now' = now + TickMs
    /\ UNCHANGED <<activated, usage, tq, proj, cachedBranch, branchLastChecked,
                   today, panels, panelsCreated, activePanel, last, pre, sent,
                   edits, seeded, cqText, cqResult, exportVars, loadVars, call,
                   persisted, identityVars>>

NextExport ==
    \/ Activate
    \/ ExportStats
    \/ ExportAndUpload
    \/ \E email \in {"a@example.com", "b@example.com"} : ResolveEmail(email)
    \/ TickExport

SpecExport == InitExport /\ [][NextExport]_vars

-----------------------------------------------------------------------------
\* Reading the last export and upload.

Uploaded == DOMAIN currentUserData # {} /\ currentData.kind = "array"

\* the positions of the array before the merge that the incoming record matches
MatchIndexes ==
    {i \in 1..Len(preData) :
        \/ preData[i]["userId"] = currentUserData["userId"]
        \/ preData[i]["email"] = currentUserData["email"]}

LowestMatch == CHOOSE i \in MatchIndexes : \A j \in MatchIndexes : i <= j

\* C17.  When the incoming export matches an existing record, the matched slot
\* becomes the shallow overlay of incoming over existing: every field the
\* incoming record carries takes the incoming value and every field it omits
\* keeps the existing value.
C17_MatchedSlotIsOverlay ==
    (Uploaded /\ MatchIndexes # {}) =>
        LET slot == currentData.records[LowestMatch]
            was == preData[LowestMatch]
        IN  /\ DOMAIN slot = (DOMAIN was) \cup (DOMAIN currentUserData)
            /\ {"userId", "email", "usage", "tokenQuery", "projects"}
                   \subseteq DOMAIN currentUserData
            /\ \A f \in DOMAIN currentUserData : slot[f] = currentUserData[f]
            /\ \A f \in (DOMAIN was) \ (DOMAIN currentUserData) : slot[f] = was[f]

\* same userId, another email, an avatarUrl only on the existing record
C17_Witness ==
    /\ Uploaded
    /\ MatchIndexes # {}
    /\ preData[LowestMatch]["userId"] = currentUserData["userId"]
    /\ preData[LowestMatch]["email"] # currentUserData["email"]
    /\ "avatarUrl" \in DOMAIN preData[LowestMatch]
    /\ "avatarUrl" \notin DOMAIN currentUserData
    /\ currentData.records[LowestMatch]["email"] = currentUserData["email"]
    /\ currentData.records[LowestMatch]["avatarUrl"] = preData[LowestMatch]["avatarUrl"]

\* C18.  An incoming export replaces the record at the lowest index whose
\* userId or email equals the incoming one; only that index changes, every
\* other entry and the length of the collection stay the same, even when later
\* entries match too.
C18_OnlyFirstMatchChanges ==
    (Uploaded /\ MatchIndexes # {}) =>
        /\ Len(currentData.records) = Len(preData)
        /\ currentData.records[LowestMatch]["userId"] = currentUserData["userId"]
        /\ currentData.records[LowestMatch]["email"] = currentUserData["email"]
        /\ currentData.records[LowestMatch]["usage"] = currentUserData["usage"]
        /\ \A j \in 1..Len(preData) :
               j # LowestMatch => currentData.records[j] = preData[j]

\* the first entry matches by email only, the second by userId: the first is
\* replaced and the second stays
C18_Witness ==
    /\ Uploaded
    /\ MatchIndexes = {1, 2}
    /\ preData[1]["userId"] # currentUserData["userId"]
    /\ preData[2]["userId"] = currentUserData["userId"]
    /\ currentData.records[1]["userId"] = currentUserData["userId"]
    /\ currentData.records[1] # preData[1]
    /\ currentData.records[2] = preData[2]

\* C19.  When no existing record has the incoming userId or the incoming
\* email, the merge appends exactly one entry at the end: the incoming record
\* with an avatarUrl that is a function of its userId; the entries that were
\* there are unchanged and the length grows by one.
C19_NoMatchAppends ==
    (Uploaded /\ MatchIndexes = {}) =>
        LET n == Len(preData)
            added == currentData.records[n + 1]
        IN  /\ Len(currentData.records) = n + 1
            /\ \A j \in 1..n : currentData.records[j] = preData[j]
            /\ DOMAIN added = (DOMAIN currentUserData) \cup {"avatarUrl"}
            /\ \A f \in DOMAIN currentUserData : added[f] = currentUserData[f]
            /\ added["avatarUrl"]
                   = <<"https://api.dicebear.com/7.x/avataaars/svg?seed=",
                       currentUserData["userId"]>>

\* a third user appended to two records of other users
C19_Witness ==
    /\ Uploaded
    /\ MatchIndexes = {}
    /\ Len(preData) = 2
    /\ Len(currentData.records) = 3
    /\ currentData.records[3]["userId"] = "user_3"
    /\ currentData.records[3]["avatarUrl"][2] = "user_3"

-----------------------------------------------------------------------------
\* The dashboard loader, getData of dashboard/app/page.tsx: every .json file of
\* the data directory is read in directory order, the records are gathered in
\* allUsers and then deduplicated through a Map keyed by userId.

MaxFiles == 2          \* files in the data directory
MaxFileRecords == 1    \* records in one array file

\* a string used as a condition
TruthyText(text) == text # ""

LoadRecord(userId, version) ==
    Put(Put(Put(EmptyMap,
        "userId", userId),
        "email", "a@example.com"),
        "version", version)

LoadRecords == {LoadRecord(id, v) : id \in {"user_1", "user_2"}, v \in 1..2}

\* partial records: one without email, one without userId
PartialRecords ==
    {[f \in {"userId", "version"} |-> LoadRecord("user_2", 3)[f]],
     [f \in {"email", "version"} |-> LoadRecord("user_2", 4)[f]]}

\* single-object exports: complete, with an avatar of their own, partial
SingleObjects ==
    LoadRecords
    \cup {Put(LoadRecord("user_1", 3), "avatarUrl", <<"https://example.com/", "me.png">>)}
    \cup PartialRecords

\* the elements of an array file: JSON.parse accepts any object
RECURSIVE ArraysUpTo(_)
ArraysUpTo(n) ==
    IF n = 0 THEN {<<>>}
    ELSE LET A == ArraysUpTo(n - 1)
         IN  A \cup {Append(a, r) : a \in A, r \in LoadRecords \cup PartialRecords}

FileContents ==
    {DataFile("corrupt", <<>>)}
    \cup {DataFile("object", <<r>>) : r \in SingleObjects}
    \cup {DataFile("array", a) : a \in ArraysUpTo(MaxFileRecords)}

RECURSIVE FileListsUpTo(_)
FileListsUpTo(n) ==
    IF n = 0 THEN {<<>>}
    ELSE LET L == FileListsUpTo(n - 1)
         IN  L \cup {Append(l, f) : l \in L, f \in FileContents}

\* what one file adds to allUsers
UsersOfFile(file) ==
    IF file.kind = "array" THEN file.records
    ELSE IF file.kind = "object" THEN
        LET user == file.records[1]
        IN  IF TruthyText(Field(user, "userId")) /\ TruthyText(Field(user, "email"))
            THEN IF "avatarUrl" \in DOMAIN user
                 THEN <<user>>
                 ELSE <<Put(user, "avatarUrl", AvatarUrl(user["userId"]))>>
            ELSE <<>>
    ELSE <<>>

\* files.forEach(file => ...)
RECURSIVE ReadFiles(_)
ReadFiles(fs) ==
    IF fs = <<>> THEN <<>>
    ELSE UsersOfFile(Head(fs)) \o ReadFiles(Tail(fs))

\* a Map that keeps the record it saw first for a key
MapSet_KeepFirst(entries, u) ==
    IF \E i \in 1..Len(entries) : Field(entries[i], "userId") = Field(u, "userId")
    THEN entries
    ELSE Append(entries, u)

\* Map.prototype.set: a new key goes to the end, a known key keeps its place
\* and takes the new value
MapSet(entries, u) ==
    IF \E i \in 1..Len(entries) : Field(entries[i], "userId") = Field(u, "userId")
    THEN [i \in 1..Len(entries) |->
             IF Field(entries[i], "userId") = Field(u, "userId") THEN u ELSE entries[i]]
    ELSE Append(entries, u)

\* Array.from(new Map(allUsers.map(u => [u.userId, u])).values())
RECURSIVE Deduplicate(_, _)
Deduplicate(entries, allUsers) ==
    IF allUsers = <<>> THEN entries
    ELSE Deduplicate(MapSet(entries, Head(allUsers)), Tail(allUsers))

getData(fs) == Deduplicate(<<>>, ReadFiles(fs))

InitLoad ==
    /\ InitWith(FreshStore)
    /\ NoClassify
    /\ NoExport
    /\ NoCall
    /\ NoIdentity
    /\ files \in FileListsUpTo(MaxFiles)
    /\ uniqueUsers = [done |-> FALSE, users |-> <<>>]
    /\ users = <<>>

\* Home(): getData() runs and the Dashboard is mounted with initialData, the
\* first value of its state users
GetData ==
    /\ ~uniqueUsers.done
    /\ uniqueUsers' = [done |-> TRUE, users |-> getData(files)]
    /\ users' = getData(files)
    /\ UNCHANGED <<activated, usage, tq, proj, cachedBranch, branchLastChecked,
                   now, today, panels, panelsCreated, activePanel, last, pre,
                   sent, edits, seeded, cqText, cqResult, exportVars, files, call,
                   persisted, identityVars>>

NextLoad == GetData

SpecLoad == InitLoad /\ [][NextLoad]_vars

-----------------------------------------------------------------------------
\* The dashboard's JSON import: the page loaded from a data directory of at
\* most one file, then files imported one after another into the state users
\* until it holds MaxUsers entries.  The selection and the view mode that the
\* import of a single object also sets are display state and not modelled.

MaxUsers == 3

\* the files the user imports
UploadFiles ==
    {DataFile("corrupt", <<>>),
     DataFile("object", <<LoadRecord("user_1", 2)>>),
     DataFile("object", <<[f \in {"userId", "version"} |-> LoadRecord("user_2", 3)[f]]>>),
     DataFile("array", <<LoadRecord("user_1", 1)>>),
     DataFile("array", <<LoadRecord("user_2", 1),
                         [f \in {"email", "version"} |-> LoadRecord("user_2", 4)[f]]>>)}

\* `imported_${Date.now()}_${i}`, `imported_${Date.now()}`
ImportedUserId(t, i) ==
    IF i < 0 THEN "imported_" \o ToString(t)
    ELSE "imported_" \o ToString(t) \o "_" \o ToString(i)

\* `imported_user_${i}@example.com`, 'imported@example.com'
ImportedEmail(i) ==
    IF i < 0 THEN "imported@example.com"
    ELSE "imported_user_" \o ToString(i) \o "@example.com"

\* { ...u, userId: u.userId || ..., email: u.email || ... }; i is the index in
\* the array, from 0, and -1 for a single object
Imported(u, t, i) ==
    Spread(u, Put(Put(EmptyMap,
        "userId", IF TruthyText(Field(u, "userId")) THEN u["userId"]
                  ELSE ImportedUserId(t, i)),
        "email", IF TruthyText(Field(u, "email")) THEN u["email"]
                 ELSE ImportedEmail(i)))

\* reader.onload of handleFileUpload
HandleFileUpload(file) ==
    /\ uniqueUsers.done
    /\ Len(users) < MaxUsers
    /\ users' =
           IF file.kind = "array"
           THEN users \o [k \in 1..Len(file.records) |->
                              Imported(file.records[k], now, k - 1)]
           ELSE IF file.kind = "object"
           THEN Append(users, Imported(file.records[1], now, -1))
           ELSE users
    /\ UNCHANGED <<activated, usage, tq, proj, cachedBranch, branchLastChecked,
                   now, today, panels, panelsCreated, activePanel, last, pre,
                   sent, edits, seeded, cqText, cqResult, exportVars, files,
                   uniqueUsers, call, persisted, identityVars>>

InitImport ==
    /\ InitWith(FreshStore)
    /\ NoClassify
    /\ NoExport
    /\ NoCall
    /\ NoIdentity
    /\ files \in FileListsUpTo(1)
    /\ uniqueUsers = [done |-> FALSE, users |-> <<>>]
    /\ users = <<>>

NextImport ==
    \/ GetData
    \/ \E file \in UploadFiles : HandleFileUpload(file)

SpecImport == InitImport /\ [][NextImport]_vars

\* The records of the files in reading order, as the files hold them: every
\* entry of an array file, and a single object that has a userId and an email.
RECURSIVE SeenInOrder(_)
SeenInOrder(fs) ==
    IF fs = <<>> THEN <<>>
    ELSE (IF Head(fs).kind = "array" THEN Head(fs).records
          ELSE IF /\ Head(fs).kind = "object"
                  /\ {"userId", "email"} \subseteq DOMAIN Head(fs).records[1]
               THEN Head(fs).records
               ELSE <<>>)
         \o SeenInOrder(Tail(fs))

\* C20.  The collection getData returns holds each userId at most once, holds
\* every userId that was read, and for each userId holds the record seen last
\* in reading order.
C20_LoaderKeepsLastPerUser ==
    uniqueUsers.done =>
        LET seen == SeenInOrder(files)
            kept == uniqueUsers.users
        IN  /\ \A i, j \in 1..Len(kept) :
                   Field(kept[i], "userId") = Field(kept[j], "userId") => i = j
            /\ \A k \in 1..Len(seen) :
                   \E i \in 1..Len(kept) : Field(kept[i], "userId") = Field(seen[k], "userId")
            /\ \A i \in 1..Len(kept) :
                   LET at == {k \in 1..Len(seen) : Field(seen[k], "userId") = Field(kept[i], "userId")}
                       lastSeen == CHOOSE k \in at : \A m \in at : m <= k
                   IN  /\ at # {}
                       /\ \A f \in DOMAIN seen[lastSeen] :
                              kept[i][f] = seen[lastSeen][f]

\* two files with the same user: the record of the second file is the one kept
C20_Witness ==
    /\ uniqueUsers.done
    /\ Len(files) = 2
    /\ files[1].kind = "array"
    /\ Len(files[1].records) = 1
    /\ Field(files[1].records[1], "userId") = "user_1"
    /\ Field(files[1].records[1], "version") = 1
    /\ files[2].kind = "object"
    /\ Field(files[2].records[1], "userId") = "user_1"
    /\ Field(files[2].records[1], "version") = 2
    /\ "email" \in DOMAIN files[2].records[1]
    /\ \E i \in 1..Len(uniqueUsers.users) :
           /\ Field(uniqueUsers.users[i], "userId") = "user_1"
           /\ Field(uniqueUsers.users[i], "version") = 2

\* C21.  Partial records are never merged on load: no record of the loaded
\* collection lacks a userId or an email, whether the file held it as a single
\* object or as an element of an array.
C21_PartialRecordsExcluded ==
    uniqueUsers.done =>
        \A i \in 1..Len(uniqueUsers.users) :
            /\ TruthyText(Field(uniqueUsers.users[i], "userId"))
            /\ TruthyText(Field(uniqueUsers.users[i], "email"))

-----------------------------------------------------------------------------
\* Reading the export and upload against a data file that cannot be parsed.

\* C22.  When the dashboard data file cannot be parsed, Export & Upload does
\* not overwrite it: the file is left as it is and no collection holding only
\* the current user takes its place.
C22_CorruptFileIsNotOverwritten ==
    [][currentData.kind = "corrupt" => currentData' = currentData]_vars

-----------------------------------------------------------------------------
\* Reading the handler's writes to storage (SpecPersist).

\* the handler ran and the Memento rejected a write of it
WriteFailed == ChangeRan /\ persisted.rejected # {}

\* the tables in memory hold the increments of every change of the event
IncrementsRetained ==
    LET n == Cardinality(Qualifying(last.changes))
    IN  /\ last.classifyCalls = n
        /\ Len(last.branches) = n
        /\ QueriesOn(tq) = QueriesOn(pre.tq) + n
        /\ ProjectQueries(proj) = ProjectQueries(pre.proj) + n
        /\ DateValue(usage, last.date)
               = DateValue(pre.usage, last.date) + TokensOf(last.changes)

\* a table whose write went through is stored as memory holds it, the
\* increments of earlier rejected writes included
WrittenInFull ==
    (ChangeRan /\ Qualifying(last.changes) # {}) =>
        \A key \in StorageKeys \ persisted.rejected :
            persisted.disk[key] = Tables[key]

\* C23.  When a write of a table to storage fails, the failure is reported to
\* the caller of the mutation, the increment stays in memory and every change
\* of the event is still processed; and a later mutation whose write goes
\* through stores a value that includes the increment whose write failed.
C23_WriteFailureIsReported ==
    /\ WriteFailed =>
           /\ persisted.rejected \subseteq persisted.reported
           /\ IncrementsRetained
    /\ WrittenInFull

-----------------------------------------------------------------------------
\* Reading the migration of a table of mixed shapes (SpecMigrate).

\* some dates hold a raw integer and others a per-model mapping
MixedShapes(u) ==
    /\ \E i \in 1..Len(u) : u[i].shape = "number"
    /\ \E i \in 1..Len(u) : u[i].shape = "object"

\* C24.  Activation on a model-counts table of mixed shapes leaves every date
\* that held a raw integer n with { 'Gemini 1.5 Pro': n }, leaves every date
\* that held a mapping with that mapping, and leaves no mapping nested inside
\* a mapping and no raw integer.
C24_MixedShapesMigratedEntryWise ==
    (ActivateRan /\ MixedShapes(pre.usage)) =>
        /\ Len(usage) = Len(pre.usage)
        /\ \A i \in 1..Len(usage) :
               /\ pre.usage[i].shape = "number" =>
                      usage[i] = ObjectEntry(pre.usage[i].k,
                                     Put(EmptyMap, DEFAULT_MODEL, pre.usage[i].n))
               /\ pre.usage[i].shape = "object" => usage[i] = pre.usage[i]
               /\ usage[i].shape = "object"

\* C26.  Activation runs the legacy migration before the seeding and the
\* seeding reads the migrated table: on a store with legacy model data and an
\* empty token/query table, the token/query table afterwards has one record
\* for each date d of the legacy table and no other, and with t the legacy
\* integer of d the record has inputTokens = ceil(0.2 t), outputTokens =
\* ceil(0.8 t) and queries = { Coding: ceil(t / 100) }.
C26_SeedingReadsMigratedTable ==
    (/\ ActivateRan
     /\ Len(pre.usage) > 0
     /\ AllOfShape(pre.usage, "number")
     /\ DOMAIN pre.tq = {}) =>
        /\ DOMAIN tq = UsageKeys(pre.usage)
        /\ \A i \in 1..Len(pre.usage) :
               LET t == pre.usage[i].n
                   r == tq[pre.usage[i].k]
               IN  /\ DOMAIN r = {"inputTokens", "outputTokens", "queries"}
                   /\ 5 * (r.inputTokens - 1) < t /\ t <= 5 * r.inputTokens
                   /\ 5 * (r.outputTokens - 1) < 4 * t /\ 4 * t <= 5 * r.outputTokens
                   /\ DOMAIN r.queries = {"Coding"}
                   /\ 100 * (r.queries["Coding"] - 1) < t
                   /\ t <= 100 * r.queries["Coding"]

\* the legacy table { 2023-12-31: 250, 2024-01-01: 7 } migrated and seeded
C26_Witness ==
    /\ ActivateRan
    /\ pre.usage = <<NumberEntry(PastDate, 250), NumberEntry(Dates[1], 7)>>
    /\ DOMAIN pre.tq = {}
    /\ AllOfShape(usage, "object")
    /\ tq[PastDate] = Stats(50, 200, Queries1("Coding", 3))
    /\ tq[Dates[1]] = Stats(2, 6, Queries1("Coding", 1))

-----------------------------------------------------------------------------
\* Reading the exports of an installation (SpecExport).

\* C25.  The userId of the installation is generated at most once: once a
\* userId is stored it never changes, and every export, by Export Stats or by
\* Export & Upload, carries the stored userId, whatever the email it carries.
C25_UserIdGeneratedOnce ==
    /\ [](DOMAIN exported.doc # {} =>
             storedUserId # "" /\ exported.doc["userId"] = storedUserId)
    /\ [](DOMAIN currentUserData # {} => currentUserData["userId"] = storedUserId)
    /\ [][storedUserId # "" => storedUserId' = storedUserId]_vars

\* an upload as Guest at the start generated the userId; an Export Stats after
\* a clock tick and the resolution of the email carries the same userId
C25_Witness ==
    /\ storedUserId = NewUserId(StartNow)
    /\ Field(currentUserData, "userId") = storedUserId
    /\ Field(currentUserData, "email") = GUEST_EMAIL
    /\ exported.at > StartNow
    /\ Field(exported.doc, "userId") = storedUserId
    /\ Field(exported.doc, "email") = "a@example.com"

-----------------------------------------------------------------------------
\* Reading the live-update target (SpecLive).

\* C27.  While at least one dashboard panel is open, activePanel refers to an
\* open panel: it is cleared only when the panel it refers to is disposed, so
\* disposing an older panel leaves the newer panel as the target.
C27_LiveTargetIsOpenPanel ==
    panels # {} => activePanel \in panels

-----------------------------------------------------------------------------
\* Reading an event of several content changes (SpecBatch).

\* the changes of more than 30 characters, in the order of the event
RECURSIVE LongOnly(_)
LongOnly(changes) ==
    IF changes = <<>> THEN <<>>
    ELSE (IF Len(EditText[Head(changes)]) > 30 THEN <<Head(changes)>> ELSE <<>>)
         \o LongOnly(Tail(changes))

\* the sum over the changes of ceil(length / 4)
RECURSIVE OutputEstimates(_)
OutputEstimates(q) ==
    IF q = <<>> THEN 0
    ELSE CeilOf(Len(EditText[Head(q)]), 4) + OutputEstimates(Tail(q))

\* the sum over the changes of ceil(0.2 * ceil(length / 4))
RECURSIVE InputEstimates(_)
InputEstimates(q) ==
    IF q = <<>> THEN 0
    ELSE CeilOf(CeilOf(Len(EditText[Head(q)]), 4), 5) + InputEstimates(Tail(q))

\* the three tables after the changes of q are delivered one event each
RECURSIVE SeparateEvents(_, _)
SeparateEvents(tables, q) ==
    IF q = <<>> THEN tables
    ELSE LET start == [HandlerStart EXCEPT !.usage = tables.usage,
                                           !.tq = tables.tq,
                                           !.proj = tables.proj]
             s == ProcessChanges(start, <<Head(q)>>, last.date, now, 0, BatchEnv)
         IN  SeparateEvents([usage |-> s.usage, tq |-> s.tq, proj |-> s.proj], Tail(q))

\* C28.  A change event of several content changes is processed change by
\* change: with k changes of more than 30 characters and any number of
\* shorter ones, the queries of the day's token/query record grow by k in
\* total, its token fields grow by the sums of the k estimates, and the three
\* tables are what delivering the k changes as k separate events gives.
C28_BatchEqualsSeparateEvents ==
    ChangeRan =>
        LET q == LongOnly(last.changes)
            d == last.date
            inWas == IF d \in DOMAIN pre.tq THEN pre.tq[d].inputTokens ELSE 0
            outWas == IF d \in DOMAIN pre.tq THEN pre.tq[d].outputTokens ELSE 0
        IN  /\ QueriesOn(tq) = QueriesOn(pre.tq) + Len(q)
            /\ q # <<>> =>
                   /\ tq[d].inputTokens = inWas + InputEstimates(q)
                   /\ tq[d].outputTokens = outWas + OutputEstimates(q)
            /\ Tables = SeparateEvents(pre, q)

\* two changes of 120 and 31 characters around one of 30 characters
C28_Witness ==
    /\ ChangeRan
    /\ last.changes = <<"bug120", "short30", "code31">>
    /\ QueriesOn(tq) = QueriesOn(pre.tq) + 2
    /\ tq[last.date].outputTokens >= 30 + 8

-----------------------------------------------------------------------------
\* Reading the userIds of the merged collection (SpecMerge).

UniqueUserIds(records) ==
    \A i, j \in 1..Len(records) :
        records[i]["userId"] = records[j]["userId"] => i = j

\* a record other than the one the merge replaces carries the incoming userId
UserIdHeldElsewhere ==
    \E i \in 1..Len(preData) :
        /\ preData[i]["userId"] = currentUserData["userId"]
        /\ i # LowestMatch

\* C29 as stated.  If no two records of the existing collection share a
\* userId, no two records share one after the merge of any incoming record.
C29_MergeKeepsUserIdsUnique ==
    (Uploaded /\ UniqueUserIds(preData)) => UniqueUserIds(currentData.records)

\* C29 as amended.  If no two records of the existing collection share a
\* userId and the incoming userId is carried by no record other than the one
\* the merge replaces, no two records share a userId after the merge.
C29_MergeKeepsUserIdsUniqueUnlessHeldElsewhere ==
    (Uploaded /\ UniqueUserIds(preData) /\ ~UserIdHeldElsewhere) =>
        UniqueUserIds(currentData.records)

\* a record matched by its email alone takes the incoming userId, which no
\* other record carries
C29_Witness ==
    /\ Uploaded
    /\ Len(preData) = 2
    /\ UniqueUserIds(preData)
    /\ LowestMatch = 1
    /\ preData[1]["userId"] # currentUserData["userId"]
    /\ preData[1]["email"] = currentUserData["email"]
    /\ ~UserIdHeldElsewhere
    /\ currentData.records[1]["userId"] = currentUserData["userId"]
    /\ UniqueUserIds(currentData.records)

-----------------------------------------------------------------------------
\* Reading the dashboard's state after imports (SpecImport).

\* C30.  The dashboard's user collection never holds two entries with the
\* same userId: from the deduplicated loaded collection on, after any
\* sequence of imports of arrays or single documents.
C30_DashboardUsersUnique ==
    uniqueUsers.done =>
        \A i, j \in 1..Len(users) :
            Field(users[i], "userId") = Field(users[j], "userId") => i = j

====
